---- MODULE Spec2Model ----
(***************************************************************************)
(* State-machine model of the specsmith CLI streaming session loop:        *)
(*   - SpecSmithAPIClient.send_message (api_client.py): decoding of a      *)
(*     streamed newline-delimited JSON body, chunk by chunk;               *)
(*   - ChatInterface (chat.py): start, send_single_message,                *)
(*     _interactive_loop, _send_message, _handle_action and the render     *)
(*     normalisation _normalize_markdown_alignment;                        *)
(*   - SpecSmithAPIClient.test_connection and health_check;                *)
(*   - ChatInterface._interactive_loop over input texts, and the input     *)
(*     editor _get_multiline_input with the terminal rows it draws.        *)
(* Text is a sequence of one-character strings.                            *)
(***************************************************************************)
EXTENDS Integers, Sequences, FiniteSets, TLC

VARIABLES
    \* ---- SpecSmithAPIClient.send_message (one streamed response) ----
    httpStatus,     \* status of the streaming POST; 0 = transport failure
    body,           \* the response body, as text
    chunks,         \* the body as cut into network chunks by aiter_text()
    ci,             \* index of the next chunk to read
    yielded,        \* actions yielded to the caller so far
    sm,             \* position in send_message
    raisedError,    \* the ValueError send_message raised, "none" if none
    \* ---- ChatInterface ----
    pc,             \* position of the chat coroutine
    mode,           \* "interactive" (start) or "single" (send_single_message)
    api_client,     \* self.api_client is set
    closeCount,     \* calls of api_client.aclose()
    probeCount,     \* calls of api_client.test_connection()
    createCount,    \* calls of api_client.create_session()
    session_id,     \* self.session_id; 0 is None
    loopEntered,    \* _interactive_loop was entered
    requests,       \* message requests issued (calls of api_client.send_message)
    inputs,         \* logical lines read by the input editor
    inputPending,   \* prompt_async is waiting for a line
    streamOpen,     \* the streaming HTTP response of the current turn is open
    abandoned,      \* responses still open in generators no longer iterated
    iterating,      \* the async-for over the action stream is running
    live,           \* the Live region is open
    rendered,       \* what the Live region shows: Spinner or a document
    first_content_received,
    response_text,
    pending_file_actions,
    flushIdx,       \* position of the flush loop in pending_file_actions
    promptActive,   \* a file-save confirmation prompt is waiting for an answer
    promptFor,      \* the file action the active prompt is about
    fs,             \* the filesystem: filename -> content, Absent if none
    lastReport,     \* the last report the orchestrator printed
    lastAnswer,     \* the user's answer to the last confirmation prompt
    lastPrompt,     \* the last confirmation asked: its kind and what was typed
    exit,           \* how start / send_single_message ended
    setup,          \* outcome of connection setup (probe, session creation)
    \* ---- history of the current turn (not program state) ----
    arrived,        \* the actions the stream yielded in this turn, in order
    handled,        \* the file actions handled in this turn, in order
    turnEnd,        \* how the last turn ended
    \* ---- SpecSmithAPIClient.test_connection ----
    tcPc,           \* position in test_connection
    debug,          \* the debug flag passed to the client
    healthReply,    \* what GET /agent/health gives: a status, or "error"
    authReply,      \* what GET /agent/auth gives: a status, or "error"
    probeLog,       \* the requests issued, in order
    tcResult,       \* what test_connection returned, "none" before it returns
    tcPrinted,      \* debug lines printed
    \* ---- ChatInterface._interactive_loop over input texts ----
    lpPc,           \* position in the loop
    lpMessage,      \* the text the input editor returned
    lpLog,          \* what the loop did for the current iteration, in order
    lpCause,        \* what ended the current iteration
    lpIter,         \* iterations started
    \* ---- ChatInterface._get_multiline_input ----
    edPc,           \* position in the input editor
    edTyped,        \* the lines the user types, in order
    edLines,        \* the local list lines
    lines_entered,  \* the local counter lines_entered
    screen,         \* terminal rows below the row where the call began
    cursor,         \* rows between that row and the cursor row
    edResult,       \* the text returned
    \* ---- _normalize_markdown_alignment applied to a text ----
    nmPc,           \* position: the text is chosen, normalized once, twice
    nmContent,      \* the text
    nmOnce,         \* its normalization
    nmTwice,        \* the normalization of its normalization
    \* ---- the async-for body of _send_message with _handle_action ----
    acPc,           \* "streaming", "failed" (the body raised) or "ended"
    acDebug,        \* config.debug
    acArrived,      \* the decoded values the stream yielded, in order
    acQueue,        \* pending_file_actions
    acDispatched,   \* the actions passed to _handle_action, in order
    acOut,          \* lines printed: which arrival they are about, and what
    acLive,         \* the Live region is open
    acText,         \* response_text
    \* ---- create_session as called by start, and start's error display ----
    csPc,           \* position: "start", "returned", "raised"
    csDebug,        \* config.debug
    csReply,        \* what POST /agent/session gave
    csResult,       \* the session id returned, "none" if none
    csError,        \* the text of the ValueError raised, <<>> if none
    csShown,        \* what start printed for the failure, <<>> if nothing
    csLog,          \* the attempts finished so far: reply, result, error, shown
    tuPc,           \* where the tool notices are: idle, handling
    tuAction,       \* the tool_use action being handled
    tuShown,        \* the name its informational line showed
    tuLog,          \* the tool_use actions handled so far, with what was shown
    erPc,           \* where the error helpers are: idle, start, sanitized, done
    erText,         \* str(error), the exception's text
    erDebug,        \* the debug argument
    erMessage,      \* what sanitize_error_message returned
    erError,        \* the SpecsmithError create_error_from_exception returned
    mnPc,           \* where the command line is: idle, main, chat, run, done
    mnKeyId,        \* the access key id after options, environment and file
    mnKeyToken,     \* the access key token after options, environment and file
    mnMessage,      \* the chat command's message argument
    mnDebug,            \* config.debug
    mnInteractive,  \* the chat command's --interactive flag
    mnConfig,       \* ctx.obj["config"]: none, loaded
    mnShown,        \* the last line the command printed
    mnStarted,      \* ChatInterface.start has been entered
    mnExit          \* the exit status: running, 0, 1

streamVars == <<httpStatus, body, chunks, ci, yielded, sm, raisedError>>

chatVars == <<pc, mode, api_client, closeCount, probeCount, createCount,
              session_id, loopEntered, requests, inputs, inputPending,
              streamOpen, abandoned, iterating, live, rendered, first_content_received,
              response_text, pending_file_actions, flushIdx, promptActive,
              promptFor, fs, lastReport, lastAnswer, lastPrompt, exit, setup, arrived, handled,
              turnEnd>>

probeVars == <<tcPc, debug, healthReply, authReply, probeLog, tcResult, tcPrinted>>

loopVars == <<lpPc, lpMessage, lpLog, lpCause, lpIter>>

editorVars == <<edPc, edTyped, edLines, lines_entered, screen, cursor, edResult>>

normVars == <<nmPc, nmContent, nmOnce, nmTwice>>

actVars == <<acPc, acDebug, acArrived, acQueue, acDispatched, acOut, acLive, acText>>

sessVars == <<csPc, csDebug, csReply, csResult, csError, csShown, csLog>>

toolVars == <<tuPc, tuAction, tuShown, tuLog>>

errVars == <<erPc, erText, erDebug, erMessage, erError>>

mainVars == <<mnPc, mnKeyId, mnKeyToken, mnMessage, mnDebug, mnInteractive,
              mnConfig, mnShown, mnStarted, mnExit>>

vars == <<streamVars, chatVars, probeVars, loopVars, editorVars, normVars,
          actVars, sessVars,
    toolVars,
    errVars,
    mainVars>>

\* What the actions of one part leave alone: every other part.
outsideStream == <<chatVars, probeVars, loopVars, editorVars, normVars,
                   actVars, sessVars,
    toolVars,
    errVars,
    mainVars>>

outsideChat == <<streamVars, probeVars, loopVars, editorVars, normVars,
                 actVars, sessVars,
    toolVars,
    errVars,
    mainVars>>

outsideProbe == <<streamVars, chatVars, loopVars, editorVars, normVars,
                  actVars, sessVars,
    toolVars,
    errVars,
    mainVars>>

outsideLoop == <<streamVars, chatVars, probeVars, editorVars, normVars,
                 actVars, sessVars,
    toolVars,
    errVars,
    mainVars>>

outsideEditor == <<streamVars, chatVars, probeVars, loopVars, normVars,
                   actVars, sessVars,
    toolVars,
    errVars,
    mainVars>>

outsideNorm == <<streamVars, chatVars, probeVars, loopVars, editorVars,
                 actVars, sessVars,
    toolVars,
    errVars,
    mainVars>>

outsideAct == <<streamVars, chatVars, probeVars, loopVars, editorVars, normVars,
                sessVars,
    toolVars,
    errVars,
    mainVars>>

outsideSess == <<streamVars, chatVars, probeVars, loopVars, editorVars, normVars,
                 actVars,
    toolVars,
    errVars,
    mainVars>>

outsideTool == <<streamVars, chatVars, probeVars, loopVars,
    editorVars, normVars, actVars, sessVars,
    errVars,
    mainVars>>

outsideErr == <<streamVars, chatVars, probeVars, loopVars,
    editorVars, normVars, actVars, sessVars, toolVars,
    mainVars>>

outsideMain == <<streamVars, chatVars, probeVars, loopVars,
    editorVars, normVars, actVars, sessVars, toolVars, errVars>>

(***************************************************************************)
(* Bounds                                                                  *)
(***************************************************************************)
MaxBody == 4        \* characters in a streamed response body
MaxActions == 3     \* actions the server streams in one turn
MaxTurns == 2       \* message turns of one chat
MaxInputs == 2      \* logical lines read in one chat

(***************************************************************************)
(* Text helpers: str.split, str.strip, str.splitlines, str.join            *)
(***************************************************************************)
NL == "\n"
SP == " "
BT == "~"       \* stands for the backtick character

\* Whitespace as str.strip() sees it, over the characters the model uses.
IsWs(c) == c \in {" ", "\n", "\t", "\r"}

RECURSIVE LStrip(_)
LStrip(s) == IF s # <<>> /\ IsWs(Head(s)) THEN LStrip(Tail(s)) ELSE s

RECURSIVE RStrip(_)
RStrip(s) ==
    IF s # <<>> /\ IsWs(s[Len(s)]) THEN RStrip(SubSeq(s, 1, Len(s) - 1)) ELSE s

Strip(s) == LStrip(RStrip(s))

\* s.split(sep): one more piece than there are separators.
RECURSIVE Split(_, _)
Split(s, sep) ==
    IF \A i \in 1..Len(s) : s[i] # sep
    THEN <<s>>
    ELSE LET k == CHOOSE i \in 1..Len(s) :
                      s[i] = sep /\ \A j \in 1..(i - 1) : s[j] # sep
         IN  <<SubSeq(s, 1, k - 1)>> \o Split(SubSeq(s, k + 1, Len(s)), sep)

\* s.splitlines(): as split on the line break, without a trailing empty piece.
Splitlines(s) ==
    LET parts == Split(s, NL)
    IN  IF parts[Len(parts)] = <<>>
        THEN SubSeq(parts, 1, Len(parts) - 1)
        ELSE parts

\* sep.join(lines)
RECURSIVE Join(_, _)
Join(lines, sep) ==
    IF lines = <<>> THEN <<>>
    ELSE IF Len(lines) = 1 THEN lines[1]
    ELSE lines[1] \o <<sep>> \o Join(Tail(lines), sep)

StartsWith(s, p) == Len(s) >= Len(p) /\ SubSeq(s, 1, Len(p)) = p

RECURSIVE Concat(_)
Concat(ss) == IF ss = <<>> THEN <<>> ELSE Head(ss) \o Concat(Tail(ss))

(***************************************************************************)
(* json.loads, restricted to texts over the characters { } 1 and space.    *)
(* After strip() the JSON texts over these characters are exactly:         *)
(*   one or more digits 1 (a number), and { spaces } (the empty object).   *)
(* The decoded value is the number's digits, or the empty object whatever  *)
(* the spaces between its braces.                                          *)
(***************************************************************************)
BodyChars == {"{", "}", "1", SP, NL}

EmptyObject == <<"{", "}">>

IsNumberText(s) == Len(s) >= 1 /\ \A i \in 1..Len(s) : s[i] = "1"

IsObjectText(s) ==
    /\ Len(s) >= 2
    /\ s[1] = "{"
    /\ s[Len(s)] = "}"
    /\ \A i \in 2..(Len(s) - 1) : IsWs(s[i])

JsonDecodes(s) == IsNumberText(Strip(s)) \/ IsObjectText(Strip(s))

JsonLoads(s) == IF IsObjectText(Strip(s)) THEN EmptyObject ELSE Strip(s)

(***************************************************************************)
(* SpecSmithAPIClient.send_message                                         *)
(***************************************************************************)
\* The lines of one chunk: the inner for-loop with its try/except/continue.
RECURSIVE DecodeLines(_)
DecodeLines(lines) ==
    IF lines = <<>> THEN <<>>
    ELSE LET line == Strip(Head(lines))
         IN  IF line # <<>> /\ JsonDecodes(line)
             THEN <<JsonLoads(line)>> \o DecodeLines(Tail(lines))
             ELSE DecodeLines(Tail(lines))

\* As DecodeLines, but a line that fails to decode ends the chunk's lines.
RECURSIVE DecodeLinesStopAtError(_)
DecodeLinesStopAtError(lines) ==
    IF lines = <<>> THEN <<>>
    ELSE LET line == Strip(Head(lines))
         IN  IF line = <<>> THEN DecodeLinesStopAtError(Tail(lines))
             ELSE IF JsonDecodes(line)
             THEN <<JsonLoads(line)>> \o DecodeLinesStopAtError(Tail(lines))
             ELSE <<>>

\* The actions one chunk yields: the body of the async-for over aiter_text().
DecodeChunkStopAtError(chunk) ==
    IF Strip(chunk) # <<>> THEN DecodeLinesStopAtError(Split(chunk, NL)) ELSE <<>>

DecodeChunk(chunk) ==
    IF Strip(chunk) # <<>> THEN DecodeLines(Split(chunk, NL)) ELSE <<>>

\* The ValueError raised for a failed request.
SendError(status) ==
    IF status = 401 THEN "invalid_credentials"
    ELSE IF status = 404 THEN "session_not_found"
    ELSE "failed_to_send"

HttpStatuses == {200, 401, 404, 0}

RECURSIVE SeqsUpTo(_, _)
SeqsUpTo(S, n) ==
    IF n = 0 THEN {<<>>}
    ELSE LET shorter == SeqsUpTo(S, n - 1)
         IN  shorter \cup {Append(s, c) : s \in {t \in shorter : Len(t) = n - 1}, c \in S}

Bodies == SeqsUpTo(BodyChars, MaxBody)

\* The body cut after each position of cuts: the non-empty chunks aiter_text() gives.
RECURSIVE ChunksOf(_, _, _)
ChunksOf(s, cuts, from) ==
    IF from > Len(s) THEN <<>>
    ELSE LET ends == {c \in cuts : c >= from}
             to == IF ends = {} THEN Len(s)
                   ELSE CHOOSE c \in ends : \A d \in ends : c <= d
         IN  <<SubSeq(s, from, to)>> \o ChunksOf(s, cuts, to + 1)

(***************************************************************************)
(* The actions a stream decodes to, as ChatInterface sees them             *)
(***************************************************************************)
Filenames == {"a.txt", "b.txt"}

Absent == "<absent>"

\* Text deltas: a plain line, an over-indented line, a fence line, no text.
Deltas ==
    { <<"a", NL>>,
      <<SP, SP, SP, SP, "b">>,
      <<BT, BT, BT, NL>>,
      <<>> }

Action(kind, type, content, filename) ==
    [kind |-> kind, type |-> type, content |-> content, filename |-> filename]

NoAction == Action("none", "none", <<>>, "")

\* A decoded JSON value that is not an object (a number, a list, a string).
Scalar == Action("scalar", "none", <<>>, "")

ServerActions ==
    {Action("object", "message", d, "") : d \in Deltas}
    \cup {Action("object", "file", <<"X">>, "a.txt"),
          Action("object", "file", <<"Y">>, "b.txt"),
          Action("object", "file", <<"Z">>, "a.txt"),
          Action("object", "file", <<"X">>, ""),
          Action("object", "file", <<>>, "b.txt"),
          Action("object", "file", <<>>, ""),
          Action("object", "tool_use", <<>>, ""),
          Action("object", "user_action", <<>>, "a.txt"),
          Scalar}

NoFrame == [kind |-> "none", text |-> <<>>]
Spinner == [kind |-> "spinner", text |-> <<>>]
Markdown(text) == [kind |-> "markdown", text |-> text]

(***************************************************************************)
(* ChatInterface._normalize_markdown_alignment                             *)
(***************************************************************************)
Fence == <<BT, BT, BT>>

IsListMarker(s) == s # <<>> /\ s[1] \in {"-", "*", "+"}
IsQuoteMarker(s) == s # <<>> /\ s[1] = ">"

\* One line of the loop, given whether the line is inside a fenced block.
NormalizeLine(line, in_code) ==
    LET rline == RStrip(line)
        lstripped == LStrip(rline)
        leading_spaces == Len(rline) - Len(lstripped)
    IN  IF StartsWith(lstripped, Fence) THEN rline
        ELSE IF in_code THEN rline
        ELSE IF leading_spaces <= 3 THEN rline
        ELSE IF IsListMarker(lstripped) /\ leading_spaces <= 6 THEN rline
        ELSE IF IsQuoteMarker(lstripped) /\ leading_spaces <= 6 THEN rline
        ELSE lstripped

RECURSIVE NormalizeLines(_, _)
NormalizeLines(lines, in_code) ==
    IF lines = <<>> THEN <<>>
    ELSE LET toggles == StartsWith(LStrip(RStrip(Head(lines))), Fence)
         IN  <<NormalizeLine(Head(lines), in_code)>>
             \o NormalizeLines(Tail(lines),
                               IF toggles THEN ~in_code ELSE in_code)

Normalize(content) == Join(NormalizeLines(Splitlines(content), FALSE), NL)

\* The parts not running: each specification starts the others here.
StreamIdle ==
    /\ httpStatus = 200 /\ body = <<>> /\ chunks = <<>> /\ ci = 1
    /\ yielded = <<>> /\ sm = "request" /\ raisedError = "none"

ProbeIdle ==
    /\ tcPc = "idle" /\ debug = FALSE /\ healthReply = 200 /\ authReply = 200
    /\ probeLog = <<>> /\ tcResult = "none" /\ tcPrinted = 0

LoopIdle ==
    /\ lpPc = "idle" /\ lpMessage = <<>> /\ lpLog = <<>> /\ lpCause = "none"
    /\ lpIter = 0

EditorIdle ==
    /\ edPc = "idle" /\ edTyped = <<>> /\ edLines = <<>> /\ lines_entered = 0
    /\ screen = <<>> /\ cursor = 0 /\ edResult = <<>>

NormIdle ==
    /\ nmPc = "idle" /\ nmContent = <<>> /\ nmOnce = <<>> /\ nmTwice = <<>>

ActIdle ==
    /\ acPc = "idle" /\ acDebug = FALSE /\ acArrived = <<>> /\ acQueue = <<>>
    /\ acDispatched = <<>> /\ acOut = <<>> /\ acLive = FALSE /\ acText = <<>>

\* A reply to POST /agent/session: the status (0: the request raised), the
\* body text (the exception's text for status 0), whether the body is JSON,
\* and the session_id it carries ("none": no such key).
Reply(status, text, json, sid) ==
    [status |-> status, text |-> text, json |-> json, session_id |-> sid]

NoReply == Reply(0, <<>>, FALSE, "none")

SessIdle ==
    /\ csPc = "idle" /\ csDebug = FALSE /\ csReply = NoReply /\ csResult = "none"
    /\ csError = <<>> /\ csShown = <<>> /\ csLog = <<>>

\* A field of a decoded JSON object: the key is missing, the value is null,
\* or the value is a string.
MissingKey == "<missing>"

PyNone == "<None>"

\* A tool_use action as _handle_non_file_action reads it.
ToolUse(description, tool_name) ==
    [type |-> "tool_use", description |-> description, tool_name |-> tool_name]

NoToolUse == ToolUse(MissingKey, MissingKey)

ToolIdle ==
    /\ tuPc = "idle" /\ tuAction = NoToolUse /\ tuShown = "" /\ tuLog = <<>>

\* SpecsmithError(error_type, message, status_code); status_code 0 is None.
SpecsmithError(error_type, message, status_code) ==
    [error_type |-> error_type, message |-> message, status_code |-> status_code]

NoSpecsmithError == SpecsmithError("none", <<>>, 0)

ErrIdle ==
    /\ erPc = "idle" /\ erText = <<>> /\ erDebug = FALSE /\ erMessage = <<>>
    /\ erError = NoSpecsmithError

MainIdle ==
    /\ mnPc = "idle" /\ mnKeyId = PyNone /\ mnKeyToken = PyNone
    /\ mnMessage = PyNone /\ mnDebug = FALSE /\ mnInteractive = TRUE
    /\ mnConfig = "none"
    /\ mnShown = "none" /\ mnStarted = FALSE /\ mnExit = "running"

\* No confirmation has been asked yet.
NoPrompt == [kind |-> "none", typed |-> ""]

ChatIdle ==
    /\ pc = "idle" /\ mode = "none" /\ api_client = FALSE
    /\ closeCount = 0 /\ probeCount = 0 /\ createCount = 0
    /\ session_id = 0 /\ loopEntered = FALSE /\ requests = 0 /\ inputs = 0
    /\ inputPending = FALSE /\ streamOpen = FALSE /\ abandoned = 0
    /\ iterating = FALSE
    /\ live = FALSE /\ rendered = NoFrame /\ first_content_received = FALSE
    /\ response_text = <<>> /\ pending_file_actions = <<>> /\ flushIdx = 0
    /\ promptActive = FALSE /\ promptFor = NoAction
    /\ fs = [f \in Filenames |-> Absent] /\ lastReport = "none" /\ exit = "running"
    /\ lastAnswer = "none" /\ lastPrompt = NoPrompt
    /\ setup = "none"
    /\ arrived = <<>> /\ handled = <<>> /\ turnEnd = "none"

StreamInit ==
    /\ httpStatus \in HttpStatuses
    /\ body \in (IF httpStatus = 200 THEN Bodies ELSE {<<>>})
    /\ \E cuts \in SUBSET (1..(Len(body) - 1)) : chunks = ChunksOf(body, cuts, 1)
    /\ ci = 1
    /\ yielded = <<>>
    /\ sm = "request"
    /\ raisedError = "none"
    /\ ToolIdle
    /\ ErrIdle
    /\ MainIdle
    /\ ChatIdle /\ ProbeIdle /\ LoopIdle /\ EditorIdle /\ NormIdle /\ ActIdle /\ SessIdle

\* client.stream(...) and raise_for_status(): lines 74-83, 101-113.
OpenStream ==
    /\ sm = "request"
    /\ IF httpStatus = 200
       THEN sm' = "iter" /\ UNCHANGED raisedError
       ELSE sm' = "raised" /\ raisedError' = SendError(httpStatus)
    /\ UNCHANGED <<httpStatus, body, chunks, ci, yielded>>
    /\ UNCHANGED outsideStream

\* One iteration of the async-for over the chunks: lines 85-99.
ReadChunk ==
    /\ sm = "iter"
    /\ ci <= Len(chunks)
    /\ yielded' = yielded \o DecodeChunk(chunks[ci])
    /\ ci' = ci + 1
    /\ UNCHANGED <<httpStatus, body, chunks, sm, raisedError>>
    /\ UNCHANGED outsideStream

\* The chunks are exhausted: the generator returns.
EndStream ==
    /\ sm = "iter"
    /\ ci > Len(chunks)
    /\ sm' = "done"
    /\ UNCHANGED <<httpStatus, body, chunks, ci, yielded, raisedError>>
    /\ UNCHANGED outsideStream

StreamNext == OpenStream \/ ReadChunk \/ EndStream

SpecStream == StreamInit /\ [][StreamNext]_vars

(***************************************************************************)
(* ChatInterface: start, send_single_message, _interactive_loop,           *)
(* _send_message, _handle_action                                           *)
(***************************************************************************)
turnVars == <<streamOpen, abandoned, iterating, live, rendered,
              first_content_received, response_text, pending_file_actions,
              flushIdx, promptActive, promptFor, arrived, handled, turnEnd>>

ChatInit ==
    /\ StreamIdle
    /\ ToolIdle
    /\ ErrIdle
    /\ MainIdle
    /\ ChatIdle /\ ProbeIdle /\ LoopIdle /\ EditorIdle /\ NormIdle /\ ActIdle /\ SessIdle

\* The finally block of start and of send_single_message.
FinallyNoClose == UNCHANGED closeCount

Finally == closeCount' = IF api_client THEN closeCount + 1 ELSE closeCount

\* start / send_single_message up to the first await: the client is constructed.
Start(m) ==
    /\ pc = "idle"
    /\ mode' = m
    /\ api_client' = TRUE
    /\ pc' = IF m = "interactive" THEN "probe" ELSE "create_session"
    /\ UNCHANGED <<lastAnswer, lastPrompt>>
    /\ lastReport' = IF m = "interactive" THEN "connecting" ELSE lastReport
    /\ UNCHANGED <<closeCount, probeCount, createCount, session_id,
                   loopEntered, requests, inputs, inputPending, fs, exit, setup>>
    /\ UNCHANGED turnVars
    /\ UNCHANGED outsideChat

\* The constructor raises: self.api_client stays None.
StartRaises(m) ==
    /\ pc = "idle"
    /\ mode' = m
    /\ UNCHANGED <<lastAnswer, lastPrompt>>
    /\ lastReport' = "error"
    /\ pc' = "done"
    /\ exit' = "returned"
    /\ Finally
    /\ UNCHANGED <<api_client, probeCount, createCount, session_id,
                   loopEntered, requests, inputs, inputPending, fs, setup>>
    /\ UNCHANGED turnVars
    /\ UNCHANGED outsideChat

\* Where start goes after test_connection: on, or out through the return.
AfterProbeProceeds(result) == IF result = "raise" THEN "done" ELSE "create_session"

AfterProbe(result) == IF result = "ok" THEN "create_session" ELSE "done"

ProbeResults == {"ok", "fail", "raise"}

\* await self.api_client.test_connection()
Probe(result) ==
    /\ pc = "probe"
    /\ probeCount' = probeCount + 1
    /\ pc' = AfterProbe(result)
    /\ setup' = CASE result = "ok" -> setup
                  [] result = "fail" -> "probe_failed"
                  [] OTHER -> "probe_raised"
    /\ UNCHANGED <<lastAnswer, lastPrompt>>
    /\ lastReport' = CASE result = "ok" -> "connected"
                       [] result = "fail" -> "connect_failed"
                       [] OTHER -> "error"
    /\ IF pc' = "done"
       THEN exit' = "returned" /\ Finally
       ELSE UNCHANGED <<exit, closeCount>>
    /\ UNCHANGED <<mode, api_client, createCount, session_id, loopEntered,
                   requests, inputs, inputPending, fs>>
    /\ UNCHANGED turnVars
    /\ UNCHANGED outsideChat

\* What create_session gives its caller: a session id, an id that is empty
\* or null (the body's session_id is returned unexamined), or a ValueError.
CreateOutcomes == {"id", "empty_id", "raise"}

\* self.session_id = await self.api_client.create_session()
CreateSession(outcome) ==
    /\ pc = "create_session"
    /\ createCount' = createCount + 1
    /\ IF outcome # "raise"
       THEN /\ session_id' = IF outcome = "id" THEN createCount + 1 ELSE 0
            /\ setup' = IF setup = "none" THEN "ok" ELSE setup
            /\ loopEntered' = (mode = "interactive")
            /\ pc' = IF mode = "interactive" THEN "loop" ELSE "send"
            /\ UNCHANGED <<exit, closeCount, lastReport, lastAnswer, lastPrompt>>
       ELSE /\ setup' = "session_failed"
            /\ UNCHANGED <<lastAnswer, lastPrompt>>
            /\ lastReport' = "error"
            /\ pc' = "done"
            /\ exit' = "returned"
            /\ Finally
            /\ UNCHANGED <<session_id, loopEntered>>
    /\ UNCHANGED <<mode, api_client, probeCount, requests, inputs,
                   inputPending, fs>>
    /\ UNCHANGED turnVars
    /\ UNCHANGED outsideChat

\* Top of the while-loop: _get_multiline_input starts waiting for a line.
AwaitInput ==
    /\ pc = "loop"
    /\ inputs < MaxInputs
    /\ inputPending' = TRUE
    /\ pc' = "input"
    /\ UNCHANGED <<mode, api_client, closeCount, probeCount, createCount,
                   session_id, loopEntered, requests, inputs, fs, lastReport, lastAnswer, lastPrompt,
                   exit, setup>>
    /\ UNCHANGED turnVars
    /\ UNCHANGED outsideChat

InputKinds == {"quit", "blank", "message", "interrupt", "eof", "exception"}

\* The input editor returns or raises; the loop body up to _send_message.
SubmitInput(kind) ==
    /\ pc = "input"
    /\ inputPending
    /\ kind = "message" => requests < MaxTurns
    /\ inputPending' = FALSE
    /\ inputs' = inputs + 1
    /\ CASE kind \in {"quit", "interrupt", "eof"} ->
                /\ UNCHANGED <<lastAnswer, lastPrompt>>
                /\ lastReport' = "goodbye"
                /\ pc' = "done"
                /\ exit' = "returned"
                /\ Finally
         [] kind = "blank" ->
                /\ pc' = "loop"
                /\ UNCHANGED <<lastReport, lastAnswer, lastPrompt, exit, closeCount>>
         [] kind = "exception" ->
                /\ UNCHANGED <<lastAnswer, lastPrompt>>
                /\ lastReport' = "loop_error"
                /\ pc' = "loop"
                /\ UNCHANGED <<exit, closeCount>>
         [] kind = "message" ->
                /\ UNCHANGED <<lastAnswer, lastPrompt>>
                /\ lastReport' = "user_message"
                /\ pc' = "send"
                /\ UNCHANGED <<exit, closeCount>>
    /\ UNCHANGED <<mode, api_client, probeCount, createCount, session_id,
                   loopEntered, requests, fs, setup>>
    /\ UNCHANGED turnVars
    /\ UNCHANGED outsideChat

\* The locals _send_message creates at the start of a turn.
TurnLocalsKept ==
    UNCHANGED <<response_text, first_content_received, pending_file_actions>>

TurnLocals ==
    /\ response_text' = <<>>
    /\ first_content_received' = FALSE
    /\ pending_file_actions' = <<>>

\* A guard that looks at the client only.
InitializedClientOnly(client, sid) == client

\* "if not self.api_client or not self.session_id: raise ValueError"
Initialized(client, sid) == client /\ sid # 0

\* _send_message up to the async-for: the guard, the locals, the Live region.
BeginTurn ==
    /\ pc = "send"
    /\ IF ~Initialized(api_client, session_id)
       THEN \* ValueError, caught by the caller
            /\ UNCHANGED <<lastAnswer, lastPrompt>>
            /\ lastReport' = IF mode = "interactive" THEN "loop_error" ELSE "error"
            /\ IF mode = "interactive"
               THEN pc' = "loop" /\ UNCHANGED <<exit, closeCount>>
               ELSE pc' = "done" /\ exit' = "returned" /\ Finally
            /\ UNCHANGED <<requests>>
            /\ UNCHANGED turnVars
       ELSE /\ TurnLocals
            /\ live' = TRUE
            /\ rendered' = Spinner
            /\ iterating' = TRUE
            /\ requests' = requests + 1
            /\ pc' = "streaming"
            /\ flushIdx' = 0
            /\ arrived' = <<>>
            /\ handled' = <<>>
            /\ turnEnd' = "none"
            /\ UNCHANGED <<streamOpen, abandoned, promptActive, promptFor,
                           lastReport, lastAnswer, lastPrompt, exit, closeCount>>
    /\ UNCHANGED <<mode, api_client, probeCount, createCount, session_id,
                   loopEntered, inputs, inputPending, fs, setup>>
    /\ UNCHANGED outsideChat

\* Leaving the with-block closes the Live region.
LiveStaysOpen == UNCHANGED live

CloseLive == live' = FALSE

\* _send_message returns to its caller.
ReturnFromTurn ==
    IF mode = "interactive"
    THEN pc' = "loop" /\ UNCHANGED <<exit, closeCount>>
    ELSE pc' = "done" /\ exit' = "returned" /\ Finally

\* A handler that reports the failure and then goes on to the flush of the
\* queued file actions.
TurnExceptThenFlush ==
    /\ UNCHANGED <<lastAnswer, lastPrompt>>
    /\ lastReport' = "turn_error"
    /\ turnEnd' = "failed"
    /\ pc' = "flushing" /\ UNCHANGED <<exit, closeCount>>

\* except Exception in _send_message: report, then return normally.
TurnExceptTerminates ==
    /\ UNCHANGED <<lastAnswer, lastPrompt>>
    /\ lastReport' = "turn_error"
    /\ turnEnd' = "failed"
    /\ pc' = "done" /\ exit' = "returned" /\ Finally

TurnExcept ==
    /\ UNCHANGED <<lastAnswer, lastPrompt>>
    /\ lastReport' = "turn_error"
    /\ turnEnd' = "failed"
    /\ ReturnFromTurn

\* The first step of the async-for issues the streaming POST.
OpenResponse(ok) ==
    /\ pc = "streaming"
    /\ iterating
    /\ ~streamOpen
    /\ IF ok
       THEN /\ streamOpen' = TRUE
            /\ UNCHANGED <<iterating, live, pc, exit, closeCount, lastReport, lastAnswer, lastPrompt,
                           turnEnd>>
       ELSE \* send_message raises ValueError
            /\ iterating' = FALSE
            /\ CloseLive
            /\ TurnExcept
            /\ UNCHANGED streamOpen
    /\ UNCHANGED <<mode, api_client, probeCount, createCount, session_id,
                   loopEntered, requests, inputs, inputPending, fs, setup>>
    /\ UNCHANGED <<abandoned, rendered, first_content_received, response_text,
                   pending_file_actions, flushIdx, promptActive, promptFor,
                   arrived, handled>>
    /\ UNCHANGED outsideChat

\* A handler that asks as soon as the action names a file.
HasFileDataFilenameOnly(action) == action.filename # ""

\* handle_file_action's first look at the action: it has a filename and a
\* content.
HasFileData(action) == action.filename # "" /\ action.content # <<>>

\* The branch _send_message takes for an action.
DispatchInline(action) ==
    IF action.type = "message" THEN "render" ELSE "handle"

Dispatch(action) ==
    IF action.type = "message" THEN "render"
    ELSE IF action.type = "file" THEN "defer"
    ELSE "handle"

\* response_text += content
AccumulateDelta(text, content) == content

Accumulate(text, content) == text \o content

\* pending_file_actions.append(action)
EnqueueFront(queue, action) == <<action>> \o queue

Enqueue(queue, action) == Append(queue, action)

\* The stream yields an action; the body of the async-for handles it.
StreamYield(action) ==
    /\ pc = "streaming"
    /\ iterating
    /\ streamOpen
    /\ ~promptActive
    /\ Len(arrived) < MaxActions
    /\ arrived' = Append(arrived, action)
    /\ IF action.kind # "object"
       THEN \* action.get raises AttributeError inside the loop body: the
            \* generator stays suspended at its yield, its response open
            /\ iterating' = FALSE
            /\ streamOpen' = FALSE
            /\ abandoned' = abandoned + 1
            /\ CloseLive
            /\ TurnExcept
            /\ UNCHANGED <<rendered, first_content_received, response_text,
                           pending_file_actions, promptActive, promptFor>>
       ELSE /\ UNCHANGED <<iterating, streamOpen, abandoned, live, pc, exit,
                           closeCount, turnEnd>>
            /\ CASE Dispatch(action) = "render" ->
                        /\ IF action.content # <<>>
                           THEN /\ first_content_received' = TRUE
                                /\ response_text' =
                                       Accumulate(response_text, action.content)
                                /\ rendered' = Markdown(Normalize(response_text'))
                           ELSE UNCHANGED <<first_content_received,
                                            response_text, rendered>>
                        /\ UNCHANGED <<pending_file_actions, promptActive,
                                       promptFor, lastReport, lastAnswer, lastPrompt>>
                 [] Dispatch(action) = "defer" ->
                        /\ pending_file_actions' =
                               Enqueue(pending_file_actions, action)
                        /\ UNCHANGED <<first_content_received, response_text,
                                       rendered, promptActive, promptFor,
                                       lastReport, lastAnswer, lastPrompt>>
                 [] OTHER ->
                        \* _handle_action
                        /\ IF action.type = "file" /\ HasFileData(action)
                           THEN promptActive' = TRUE /\ promptFor' = action
                           ELSE UNCHANGED <<promptActive, promptFor>>
                        /\ UNCHANGED <<lastAnswer, lastPrompt>>
                        /\ lastReport' = IF action.type = "tool_use"
                                         THEN "tool_notice" ELSE lastReport
                        /\ UNCHANGED <<first_content_received, response_text,
                                       rendered, pending_file_actions>>
    /\ UNCHANGED <<mode, api_client, probeCount, createCount, session_id,
                   loopEntered, requests, inputs, inputPending, fs, setup>>
    /\ UNCHANGED <<flushIdx, handled>>
    /\ UNCHANGED outsideChat

\* The stream is exhausted: the response and the Live region close.
StreamEnds ==
    /\ pc = "streaming"
    /\ iterating
    /\ streamOpen
    /\ ~promptActive
    /\ streamOpen' = FALSE
    /\ iterating' = FALSE
    /\ CloseLive
    /\ pc' = "flushing"
    /\ flushIdx' = 1
    /\ UNCHANGED <<mode, api_client, closeCount, probeCount, createCount,
                   session_id, loopEntered, requests, inputs, inputPending,
                   fs, lastReport, lastAnswer, lastPrompt, exit, setup>>
    /\ UNCHANGED <<abandoned, rendered, first_content_received, response_text,
                   pending_file_actions, promptActive, promptFor, arrived,
                   handled, turnEnd>>
    /\ UNCHANGED outsideChat

\* send_message raises ValueError part-way through the stream.
StreamRaises ==
    /\ pc = "streaming"
    /\ iterating
    /\ streamOpen
    /\ ~promptActive
    /\ streamOpen' = FALSE
    /\ iterating' = FALSE
    /\ CloseLive
    /\ TurnExcept
    /\ UNCHANGED <<mode, api_client, probeCount, createCount, session_id,
                   loopEntered, requests, inputs, inputPending, fs, setup>>
    /\ UNCHANGED <<abandoned, rendered, first_content_received, response_text,
                   pending_file_actions, flushIdx, promptActive, promptFor,
                   arrived, handled>>
    /\ UNCHANGED outsideChat

\* As StreamInterrupt, but the interrupt only ends the iteration: the queued
\* file actions are flushed as after an exhausted stream.
StreamInterruptFlushes(where) ==
    /\ pc = "streaming"
    /\ iterating
    /\ ~promptActive
    /\ streamOpen' = FALSE
    /\ abandoned' = IF where = "body" /\ streamOpen
                    THEN abandoned + 1 ELSE abandoned
    /\ iterating' = FALSE
    /\ CloseLive
    /\ turnEnd' = "interrupted"
    /\ pc' = "flushing"
    /\ flushIdx' = 1
    /\ UNCHANGED <<mode, api_client, closeCount, probeCount, createCount,
                   session_id, loopEntered, requests, inputs, inputPending,
                   fs, lastReport, lastAnswer, lastPrompt, exit, setup>>
    /\ UNCHANGED <<rendered, first_content_received, response_text,
                   pending_file_actions, promptActive, promptFor,
                   arrived, handled>>
    /\ UNCHANGED outsideChat

\* An interrupt while the stream is iterated. "body": KeyboardInterrupt is
\* raised in the coroutine's own code, the generator is left suspended, and
\* the loop's except KeyboardInterrupt ends the chat (send_single_message has
\* no such handler). "await": the task is cancelled where it awaits the next
\* chunk; the exception passes through the generator, which closes the
\* response, and through every handler.
StreamInterrupt(where) ==
    /\ pc = "streaming"
    /\ iterating
    /\ ~promptActive
    /\ streamOpen' = FALSE
    /\ abandoned' = IF where = "body" /\ streamOpen
                    THEN abandoned + 1 ELSE abandoned
    /\ iterating' = FALSE
    /\ CloseLive
    /\ turnEnd' = "interrupted"
    /\ exit' = IF where = "body" /\ mode = "interactive"
               THEN "returned" ELSE "raised"
    /\ UNCHANGED <<lastAnswer, lastPrompt>>
    /\ lastReport' = IF exit' = "returned" THEN "goodbye" ELSE lastReport
    /\ pc' = "done"
    /\ Finally
    /\ UNCHANGED <<mode, api_client, probeCount, createCount, session_id,
                   loopEntered, requests, inputs, inputPending, fs, setup>>
    /\ UNCHANGED <<rendered, first_content_received, response_text,
                   pending_file_actions, flushIdx, promptActive, promptFor,
                   arrived, handled>>
    /\ UNCHANGED outsideChat

\* for action in pending_file_actions: the confirmation prompt is asked.
FlushPrompt ==
    /\ pc = "flushing"
    /\ ~promptActive
    /\ flushIdx <= Len(pending_file_actions)
    /\ HasFileData(pending_file_actions[flushIdx])
    /\ promptActive' = TRUE
    /\ promptFor' = pending_file_actions[flushIdx]
    /\ UNCHANGED <<pc, mode, api_client, closeCount, probeCount, createCount,
                   session_id, loopEntered, requests, inputs, inputPending,
                   fs, lastReport, lastAnswer, lastPrompt, exit, setup>>
    /\ UNCHANGED <<streamOpen, abandoned, iterating, live, rendered,
                   first_content_received, response_text,
                   pending_file_actions, flushIdx, arrived, handled, turnEnd>>
    /\ UNCHANGED outsideChat

\* A write that leaves an existing file as it is and still returns True.
WriteFileSafelyKeepsExisting(files, filepath, content, ok) ==
    [fs |-> IF ok /\ files[filepath] = Absent
            THEN [files EXCEPT ![filepath] = content]
            ELSE files,
     saved |-> ok]

\* write_file_safely: the parent directories are made and the file is opened
\* for writing and written whole, returning True; an exception of the
\* filesystem (ok = FALSE) is printed and False is returned.
WriteFileSafely(files, filepath, content, ok) ==
    [fs |-> IF ok THEN [files EXCEPT ![filepath] = content] ELSE files,
     saved |-> ok]

\* What the user types at a confirmation: yes, no, or Enter alone.
Typed == {"y", "n", ""}

\* rich's Confirm.ask as the two helpers call it: Enter alone gives the
\* default, otherwise the answer typed.
ConfirmAsk(typed, default) == IF typed = "" THEN default ELSE typed = "y"

\* An overwrite confirmation whose default is to accept.
ConfirmOverwriteDefaultsYes(typed) == ConfirmAsk(typed, TRUE)

\* confirm_overwrite: default=False.
ConfirmOverwrite(typed) == ConfirmAsk(typed, FALSE)

\* confirm_save: default=True.
ConfirmSave(typed) == ConfirmAsk(typed, TRUE)

\* handle_file_action's choice of the confirmation: the overwrite prompt
\* when a file of that name exists, otherwise the save prompt.
PromptKind(files, action) ==
    IF files[action.filename] # Absent THEN "overwrite" ELSE "save"

\* The answer of the confirmation asked for the action.
Confirmed(files, action, typed) ==
    IF PromptKind(files, action) = "overwrite"
    THEN ConfirmOverwrite(typed)
    ELSE ConfirmSave(typed)

\* A handler that writes the file whatever the answer.
HandleFileActionWritesAnyway(files, action, accept, ok) ==
    LET written == WriteFileSafely(files, action.filename, action.content, ok)
    IN  [fs |-> written.fs,
         report |-> IF ~accept THEN "skipped"
                    ELSE IF written.saved THEN "saved" ELSE "write_failed"]

\* handle_file_action once the prompt is answered: on decline nothing is
\* written and the skip is reported; on accept write_file_safely runs and
\* its result decides between the success line and the failure line.
HandleFileAction(files, action, accept, ok) ==
    IF ~accept
    THEN [fs |-> files, report |-> "skipped"]
    ELSE LET written == WriteFileSafely(files, action.filename,
                                        action.content, ok)
         IN  [fs |-> written.fs,
              report |-> IF written.saved THEN "saved" ELSE "write_failed"]

\* A flush that gives up the rest of the queue when a write has failed.
NextQueuedStopsOnFailure(idx, queue, report) ==
    IF report = "write_failed" THEN Len(queue) + 1 ELSE idx + 1

\* for action in pending_file_actions: the loop goes on to the next queued
\* action whatever _handle_file_action reported.
NextQueued(idx, queue, report) == idx + 1

\* handle_file_action after the answer: write on accept, skip on decline.
AnswerPrompt(typed, writeOk) ==
    /\ promptActive
    /\ promptActive' = FALSE
    /\ handled' = Append(handled, promptFor)
    /\ lastPrompt' = [kind |-> PromptKind(fs, promptFor), typed |-> typed]
    /\ LET accept == Confirmed(fs, promptFor, typed)
           outcome == HandleFileAction(fs, promptFor, accept, writeOk)
       IN  /\ lastAnswer' = IF accept THEN "accept" ELSE "decline"
           /\ fs' = outcome.fs
           /\ lastReport' = outcome.report
    /\ flushIdx' = IF pc = "flushing"
                   THEN NextQueued(flushIdx, pending_file_actions, lastReport')
                   ELSE flushIdx
    /\ UNCHANGED <<pc, mode, api_client, closeCount, probeCount, createCount,
                   session_id, loopEntered, requests, inputs, inputPending,
                   exit, setup>>
    /\ UNCHANGED <<streamOpen, abandoned, iterating, live, rendered,
                   first_content_received, response_text,
                   pending_file_actions, promptFor, arrived, turnEnd>>
    /\ UNCHANGED outsideChat

\* for action in pending_file_actions: an action without a filename or
\* without a content is passed over, nothing asked, nothing written.
FlushIncomplete ==
    /\ pc = "flushing"
    /\ ~promptActive
    /\ flushIdx <= Len(pending_file_actions)
    /\ ~HasFileData(pending_file_actions[flushIdx])
    /\ handled' = Append(handled, pending_file_actions[flushIdx])
    /\ flushIdx' = NextQueued(flushIdx, pending_file_actions, lastReport)
    /\ UNCHANGED <<pc, mode, api_client, closeCount, probeCount, createCount,
                   session_id, loopEntered, requests, inputs, inputPending,
                   fs, lastReport, lastAnswer, lastPrompt, exit, setup>>
    /\ UNCHANGED <<streamOpen, abandoned, iterating, live, rendered,
                   first_content_received, response_text,
                   pending_file_actions, promptActive, promptFor, arrived,
                   turnEnd>>
    /\ UNCHANGED outsideChat

\* The flush loop is over: _send_message returns.
FlushDone ==
    /\ pc = "flushing"
    /\ ~promptActive
    /\ flushIdx > Len(pending_file_actions)
    /\ turnEnd' = "normal"
    /\ ReturnFromTurn
    /\ UNCHANGED <<mode, api_client, probeCount, createCount, session_id,
                   loopEntered, requests, inputs, inputPending, fs,
                   lastReport, lastAnswer, lastPrompt, setup>>
    /\ UNCHANGED <<streamOpen, abandoned, iterating, live, rendered,
                   first_content_received, response_text,
                   pending_file_actions, flushIdx, promptActive, promptFor,
                   arrived, handled>>
    /\ UNCHANGED outsideChat

\* The event loop's finalizer closes a generator that was left suspended; it
\* runs while the chat coroutine is suspended or after it has ended.
FinalizeGenerator ==
    /\ abandoned > 0
    /\ inputPending \/ pc \in {"streaming", "done"}
    /\ abandoned' = abandoned - 1
    /\ UNCHANGED <<pc, mode, api_client, closeCount, probeCount, createCount,
                   session_id, loopEntered, requests, inputs, inputPending,
                   fs, lastReport, lastAnswer, lastPrompt, exit, setup>>
    /\ UNCHANGED <<streamOpen, iterating, live, rendered,
                   first_content_received, response_text,
                   pending_file_actions, flushIdx, promptActive, promptFor,
                   arrived, handled, turnEnd>>
    /\ UNCHANGED outsideChat

Next ==
    \/ \E m \in {"interactive", "single"} : Start(m)
    \/ \E m \in {"interactive", "single"} : StartRaises(m)
    \/ \E result \in ProbeResults : Probe(result)
    \/ \E outcome \in CreateOutcomes : CreateSession(outcome)
    \/ AwaitInput
    \/ \E kind \in InputKinds : SubmitInput(kind)
    \/ BeginTurn
    \/ \E ok \in BOOLEAN : OpenResponse(ok)
    \/ \E action \in ServerActions : StreamYield(action)
    \/ StreamEnds
    \/ StreamRaises
    \/ \E where \in {"body", "await"} : StreamInterrupt(where)
    \/ FlushPrompt
    \/ \E typed \in Typed, writeOk \in BOOLEAN : AnswerPrompt(typed, writeOk)
    \/ FlushIncomplete
    \/ FlushDone
    \/ FinalizeGenerator

Spec == ChatInit /\ [][Next]_vars

(***************************************************************************)
(* Properties                                                              *)
(***************************************************************************)
\* The lines of a text that decode as JSON, decoded, in order.
ValidLines(text) ==
    LET decodable == SelectSeq(Split(text, NL), JsonDecodes)
    IN  [i \in 1..Len(decodable) |-> JsonLoads(decodable[i])]

\* Every chunk boundary falls right after a line break.
Aligned(chs) == \A i \in 1..(Len(chs) - 1) : chs[i][Len(chs[i])] = NL

\* The part of the body read so far.
ReadSoFar == Concat(SubSeq(chunks, 1, ci - 1))

IsFile(action) == action.type = "file"
IsMessage(action) == action.type = "message"

\* The file actions of a sequence of actions, in order.
FilesOf(actions) == SelectSeq(actions, IsFile)

RECURSIVE ContentsOf(_)
ContentsOf(actions) ==
    IF actions = <<>> THEN <<>>
    ELSE <<Head(actions).content>> \o ContentsOf(Tail(actions))

\* The concatenation of the message deltas of a sequence of actions.
MessageText(actions) == Concat(ContentsOf(SelectSeq(actions, IsMessage)))

\* C1: reassembly invariance. Whatever way the body is cut into chunks, the
\* actions send_message has yielded when the stream ends are those it yields
\* for the body in one piece (a line cut by a chunk boundary is decoded as
\* one line).
C1_ReassemblyInvariance ==
    sm = "done" => yielded = DecodeChunk(body)

\* C2: with chunks aligned on line boundaries, send_message has yielded, after
\* every chunk, exactly the lines read so far that decode as JSON, in stream
\* order; a line that fails to decode is skipped, nothing is raised and the
\* later valid lines are still yielded.
C2_AlignedChunksYieldValidLines ==
    (httpStatus = 200 /\ Aligned(chunks)) =>
        /\ sm # "raised"
        /\ raisedError = "none"
        /\ yielded = ValidLines(ReadSoFar)

\* C2 witness: an aligned stream of several chunks has ended, a line that
\* does not decode came before a line that does, and an action was yielded.
C2_Witness ==
    /\ sm = "done"
    /\ Aligned(chunks)
    /\ Len(chunks) >= 2
    /\ yielded # <<>>
    /\ LET lines == Split(body, NL)
       IN  \E i, j \in 1..Len(lines) :
               /\ i < j
               /\ Strip(lines[i]) # <<>>
               /\ ~JsonDecodes(lines[i])
               /\ JsonDecodes(lines[j])

\* C3: while the Live region is open no file-save confirmation prompt is
\* active and no file action of the turn has been prompted or written.
C3_NoPromptWhileLive ==
    live => (~promptActive /\ handled = <<>>)

\* C3 witness: the Live region is open and a file action has arrived and
\* waits in the queue; and later the prompt for it is active, the region
\* closed.
C3_Witness ==
    /\ promptActive
    /\ ~live
    /\ FilesOf(arrived) # <<>>
    /\ Len(arrived) >= 2
    /\ IsMessage(arrived[Len(arrived)])

\* C4: while the input editor waits for a line, no action stream is being
\* iterated, the Live region is closed and no streaming response is open.
C4_InputAndStreamExclusive ==
    inputPending =>
        (~iterating /\ ~live /\ ~streamOpen /\ abandoned = 0)

\* C5: when a turn's stream is exhausted normally, the file actions queued
\* in the turn are handled once each, in arrival order, with the Live
\* region closed and before the next input is read.
C5_FlushHandlesQueuedInOrder ==
    /\ pc = "flushing" =>
           /\ ~live
           /\ ~inputPending
           /\ flushIdx >= 1
           /\ handled = SubSeq(FilesOf(arrived), 1, flushIdx - 1)
    /\ turnEnd = "normal" => handled = FilesOf(arrived)

\* C5 witness: a turn that queued two different file actions has ended
\* normally and the next input is awaited.
C5_Witness ==
    /\ turnEnd = "normal"
    /\ inputPending
    /\ Len(handled) >= 2
    /\ handled[1] # handled[2]

\* C6: after any prefix of a turn's stream the document in the Live region is
\* the normalization of the concatenation, in arrival order, of the message
\* deltas received so far in the turn; until a non-empty delta arrives the
\* region shows the spinner and that concatenation is empty.
C6_RenderedIsNormalizedConcat ==
    pc \in {"streaming", "flushing"} =>
        IF first_content_received
        THEN rendered = Markdown(Normalize(MessageText(arrived)))
        ELSE rendered = Spinner /\ MessageText(arrived) = <<>>

\* C6 witness: the Live region is open, two non-empty deltas have arrived and
\* normalization changed the accumulated text.
C6_Witness ==
    /\ live
    /\ first_content_received
    /\ Len(SelectSeq(ContentsOf(SelectSeq(arrived, IsMessage)),
                     LAMBDA c : c # <<>>)) >= 2
    /\ rendered.text # response_text

\* C7: every turn starts with an empty response document and an empty
\* file-action queue, and during a turn both hold only what arrived in that
\* turn.
C7_TurnStartsEmpty ==
    /\ (pc = "streaming" /\ arrived = <<>>) =>
           /\ response_text = <<>>
           /\ pending_file_actions = <<>>
           /\ ~first_content_received
    /\ pc \in {"streaming", "flushing"} =>
           /\ response_text = MessageText(arrived)
           /\ pending_file_actions = FilesOf(arrived)
           /\ (promptActive => \E i \in 1..Len(arrived) : arrived[i] = promptFor)

\* C7 witness: a second turn starts after a turn in which a file was saved.
C7_Witness ==
    /\ requests = 2
    /\ pc = "streaming"
    /\ arrived = <<>>
    /\ fs["a.txt"] # Absent

\* C8: a step in which a turn of the interactive chat fails with an exception
\* reports the failure and returns to the top of the loop, with the same
\* client and session id, nothing closed, no session created, the chat not
\* ended.
C8_FailedTurnReturnsToInput ==
    [][(mode = "interactive" /\ pc = "streaming" /\ turnEnd' = "failed") =>
           /\ pc' = "loop"
           /\ lastReport' = "turn_error"
           /\ session_id' = session_id
           /\ api_client' = api_client
           /\ closeCount' = closeCount
           /\ createCount' = createCount
           /\ exit' = "running"]_vars

\* C8 witness: after a failed turn the input editor waits for the next line,
\* the session as it was.
C8_Witness ==
    /\ mode = "interactive"
    /\ turnEnd = "failed"
    /\ inputPending
    /\ session_id = 1
    /\ api_client
    /\ closeCount = 0

\* C9: when start or send_single_message has ended with the API client
\* constructed, the client was closed exactly once; it is never closed
\* twice.
C9_ClientClosedExactlyOnce ==
    /\ closeCount <= 1
    /\ (pc = "done" /\ api_client) => closeCount = 1

\* C9 witness: the chat ended on an interrupt during streaming, the client
\* closed.
C9_Witness ==
    /\ pc = "done"
    /\ api_client
    /\ turnEnd = "interrupted"
    /\ exit = "raised"
    /\ closeCount = 1

\* C10: in start, a failed connection setup (the probe reports failure or
\* raises, or session creation fails) is terminal: the probe was attempted
\* exactly once, no session is created after a failed probe, the loop is not
\* entered and no message is sent.
C10_SetupFailureIsTerminal ==
    (mode = "interactive"
     /\ setup \in {"probe_failed", "probe_raised", "session_failed"}) =>
        /\ pc = "done"
        /\ probeCount = 1
        /\ createCount = (IF setup = "session_failed" THEN 1 ELSE 0)
        /\ session_id = 0
        /\ ~loopEntered
        /\ requests = 0

\* C10 witness: the probe reported failure and start has returned.
C10_Witness ==
    /\ mode = "interactive"
    /\ setup = "probe_failed"
    /\ pc = "done"
    /\ probeCount = 1

(***************************************************************************)
(* SpecSmithAPIClient.test_connection and health_check                     *)
(* A reply is the status of the response, 0 when the request raises.       *)
(***************************************************************************)
HealthReplies == {200, 204, 404, 500, 503, 0}

AuthReplies == {200, 204, 401, 403, 500, 0}

\* health_check: the status is compared with 200, every exception gives False.
HealthCheck(reply) == reply = 200

\* response.raise_for_status() raises HTTPStatusError for an error status.
RaisesForStatus(status) == status >= 400

\* The authenticated request with both except clauses: True only when the
\* request returns and raise_for_status() does not raise.
AuthCheck(reply) == reply # 0 /\ ~RaisesForStatus(reply)

\* As AuthOutcome, but an error status other than 401 is raised to the caller.
AuthOutcomeReraises(reply) ==
    IF reply = 0 THEN "false"
    ELSE IF RaisesForStatus(reply)
    THEN (IF reply = 401 THEN "false" ELSE "raised")
    ELSE "true"

\* What test_connection returns once the authenticated request is made: the
\* inner handler returns False for HTTPStatusError, 401 or not, the outer
\* one returns False for every other exception.
AuthOutcome(reply) ==
    IF reply = 0 THEN "false"
    ELSE IF RaisesForStatus(reply)
    THEN (IF reply = 401 THEN "false" ELSE "false")
    ELSE "true"

\* As AfterHealth, but the authenticated probe follows whatever health says.
AfterHealthAlwaysAuth(healthy) == "auth"

\* "if not await self.health_check(): return False"
AfterHealth(healthy) == IF healthy THEN "auth" ELSE "returned"

Bool(b) == IF b THEN "true" ELSE "false"

ProbeInit ==
    /\ ToolIdle
    /\ ErrIdle
    /\ MainIdle
    /\ StreamIdle /\ ChatIdle /\ LoopIdle /\ EditorIdle /\ NormIdle /\ ActIdle /\ SessIdle
    /\ tcPc = "start"
    /\ debug \in BOOLEAN
    /\ healthReply \in HealthReplies
    /\ authReply \in AuthReplies
    /\ probeLog = <<>>
    /\ tcResult = "none"
    /\ tcPrinted = 0

\* The liveness probe and the early return: lines 30-38, 119-120.
ProbeHealth ==
    /\ tcPc = "start"
    /\ probeLog' = Append(probeLog, "health")
    /\ tcPrinted' = IF healthReply = 0 /\ debug THEN tcPrinted + 1 ELSE tcPrinted
    /\ tcPc' = AfterHealth(HealthCheck(healthReply))
    /\ tcResult' = IF tcPc' = "returned" THEN "false" ELSE tcResult
    /\ UNCHANGED <<debug, healthReply, authReply>>
    /\ UNCHANGED outsideProbe

\* The authenticated probe and its handlers: lines 122-147.
ProbeAuth ==
    /\ tcPc = "auth"
    /\ probeLog' = Append(probeLog, "auth")
    /\ tcResult' = AuthOutcome(authReply)
    /\ tcPrinted' = IF ~AuthCheck(authReply) /\ debug THEN tcPrinted + 1 ELSE tcPrinted
    /\ tcPc' = "returned"
    /\ UNCHANGED <<debug, healthReply, authReply>>
    /\ UNCHANGED outsideProbe

ProbeNext == ProbeHealth \/ ProbeAuth

SpecProbe == ProbeInit /\ [][ProbeNext]_vars

\* C11: test_connection issues the liveness probe first and the authenticated
\* probe second; when the liveness probe fails the authenticated probe is not
\* issued; and it returns True only if the liveness probe answered 200 and the
\* authenticated probe answered without an error status.
C11_HealthThenAuth ==
    /\ probeLog \in {<<>>, <<"health">>, <<"health", "auth">>}
    /\ (tcPc = "returned" /\ healthReply # 200) => probeLog = <<"health">>
    /\ tcResult = "true" =>
        /\ probeLog = <<"health", "auth">>
        /\ healthReply = 200
        /\ authReply \in 200..299

\* C11 witness: the liveness probe failed and test_connection returned False
\* having issued that probe only.
C11_Witness ==
    /\ tcPc = "returned"
    /\ healthReply = 503
    /\ probeLog = <<"health">>
    /\ tcResult = "false"

\* C12: after an interrupt raised while the action stream of a turn is
\* iterated, the chat has ended (the loop is left, nothing waits for input or
\* for a confirmation), the client has been closed, no stream is iterated, and
\* none of the file actions queued in that turn was prompted or written (when
\* the interrupted turn is the first one, no file exists at all).
C12_InterruptUnwinds ==
    turnEnd = "interrupted" =>
        /\ pc = "done"
        /\ exit \in {"returned", "raised"}
        /\ closeCount = 1
        /\ ~streamOpen /\ ~iterating /\ ~live
        /\ ~inputPending /\ ~promptActive
        /\ handled = <<>>
        /\ \A f \in Filenames : fs[f] = Absent \/ requests > 1

\* C12 witness: an interactive chat interrupted with a file action queued.
C12_Witness ==
    /\ mode = "interactive"
    /\ turnEnd = "interrupted"
    /\ pending_file_actions # <<>>
    /\ exit = "returned"

\* C13: when a turn has failed while an action was being handled and the loop
\* is reading the next input, no response of an abandoned iteration is open.
C13_AbandonedResponseClosed ==
    (turnEnd = "failed" /\ pc = "input") => abandoned = 0

(***************************************************************************)
(* ChatInterface._interactive_loop over input texts. The input editor and  *)
(* _send_message are taken by their outcomes: the text or the exception    *)
(* the editor gives, and how the turn ends.                                *)
(***************************************************************************)
MaxInputLen == 3    \* characters of an input text drawn from InputChars
MaxLoopIter == 2    \* iterations of the while-loop

InputChars == {"q", "Q", "x", SP, NL}

\* Longer inputs around the keywords.
KeywordTexts ==
    { <<"q", "u", "i", "t">>, <<"Q", "U", "I", "T">>, <<"E", "x", "i", "t">>,
      <<SP, "e", "x", "i", "t", NL>>, <<"e", "x", "i", "t", SP, "x">>,
      <<"q", "u", "i", "t", "t", "e", "r">>, <<"q", "u", "i">> }

LoopTexts == SeqsUpTo(InputChars, MaxInputLen) \cup KeywordTexts

\* str.lower(), over the letters the model uses.
Lower(c) ==
    CASE c = "Q" -> "q" [] c = "U" -> "u" [] c = "I" -> "i"
      [] c = "T" -> "t" [] c = "E" -> "e" [] c = "X" -> "x"
      [] OTHER -> c

LowerText(s) == [i \in 1..Len(s) |-> Lower(s[i])]

QuitKeywords == { <<"q", "u", "i", "t">>, <<"e", "x", "i", "t">>, <<"q">> }

\* t occurs in s as a run of consecutive characters.
Contains(s, t) ==
    \E i \in 1..(Len(s) - Len(t) + 1) : SubSeq(s, i, i + Len(t) - 1) = t

\* As IsQuitCommand, but a keyword anywhere in the input counts.
IsQuitCommandContains(message) ==
    \E k \in QuitKeywords : Contains(Strip(LowerText(message)), k)

\* message.lower().strip() in ("quit", "exit", "q")
IsQuitCommand(message) == Strip(LowerText(message)) \in QuitKeywords

\* As IsBlank, but only the empty text counts.
IsBlankEmptyOnly(message) == message = <<>>

\* not message.strip()
IsBlank(message) == Strip(message) = <<>>

\* As LoopHandler, but an ordinary exception ends the loop too.
LoopHandlerBreaksOnError(exc) ==
    IF exc \in {"interrupt", "eof", "exception"} THEN "break" ELSE "propagate"

\* The except clauses of the loop: KeyboardInterrupt and EOFError break,
\* Exception reports and continues, a cancellation matches none of them.
LoopHandler(exc) ==
    CASE exc = "interrupt" -> "break"
      [] exc = "eof" -> "break"
      [] exc = "exception" -> "continue"
      [] OTHER -> "propagate"

LoopExceptions == {"interrupt", "eof", "exception", "cancelled"}

\* What _send_message lets escape: nothing, an Exception, KeyboardInterrupt,
\* or the cancellation of the task.
TurnOutcomes == {"returned", "exception", "interrupt", "cancelled"}

\* The loop after exception exc was raised inside its try block; log is what
\* the iteration had done before.
LoopExcept(exc, log) ==
    /\ lpLog' = IF LoopHandler(exc) = "break" THEN Append(log, "goodbye")
                ELSE IF LoopHandler(exc) = "continue" THEN Append(log, "error")
                ELSE log
    /\ lpPc' = IF LoopHandler(exc) = "continue" THEN "top" ELSE "exited"

LoopInit ==
    /\ ToolIdle
    /\ ErrIdle
    /\ MainIdle
    /\ StreamIdle /\ ChatIdle /\ ProbeIdle /\ EditorIdle /\ NormIdle /\ ActIdle /\ SessIdle
    /\ lpPc = "top"
    /\ lpMessage = <<>>
    /\ lpLog = <<>>
    /\ lpCause = "none"
    /\ lpIter = 0

\* The editor returns text: lines 200-214, up to the await of _send_message.
LoopInput(text) ==
    /\ lpPc = "top"
    /\ lpIter < MaxLoopIter
    /\ lpIter' = lpIter + 1
    /\ lpMessage' = text
    /\ IF IsQuitCommand(text)
       THEN lpLog' = <<"goodbye">> /\ lpPc' = "exited" /\ lpCause' = "quit"
       ELSE IF IsBlank(text)
       THEN lpLog' = <<>> /\ lpPc' = "top" /\ lpCause' = "blank"
       ELSE lpLog' = <<"echo", "send">> /\ lpPc' = "sending" /\ lpCause' = "message"
    /\ UNCHANGED outsideLoop

\* The editor raises: lines 200, 216-223.
LoopInputRaises(exc) ==
    /\ lpPc = "top"
    /\ lpIter < MaxLoopIter
    /\ lpIter' = lpIter + 1
    /\ lpCause' = exc
    /\ LoopExcept(exc, <<>>)
    /\ UNCHANGED lpMessage
    /\ UNCHANGED outsideLoop

\* _send_message ends: lines 214-223.
LoopTurn(outcome) ==
    /\ lpPc = "sending"
    /\ lpCause' = IF outcome = "returned" THEN "turn_returned"
                  ELSE IF outcome = "exception" THEN "turn_exception"
                  ELSE IF outcome = "interrupt" THEN "turn_interrupt"
                  ELSE "turn_cancelled"
    /\ IF outcome = "returned"
       THEN lpPc' = "top" /\ UNCHANGED lpLog
       ELSE LoopExcept(outcome, lpLog)
    /\ UNCHANGED <<lpMessage, lpIter>>
    /\ UNCHANGED outsideLoop

LoopNext ==
    \/ \E text \in LoopTexts : LoopInput(text)
    \/ \E exc \in LoopExceptions : LoopInputRaises(exc)
    \/ \E outcome \in TurnOutcomes : LoopTurn(outcome)

SpecLoop == LoopInit /\ [][LoopNext]_vars

\* The iteration read a text (and, for the turn causes, sent it).
TurnCauses == {"turn_returned", "turn_exception", "turn_interrupt", "turn_cancelled"}

TextCauses == {"quit", "blank", "message"} \cup TurnCauses

\* The text with leading and trailing whitespace removed, then lower-cased.
TrimmedLowered(text) == LowerText(Strip(text))

AllWhitespace(text) == \A i \in 1..Len(text) : IsWs(text[i])

Count(log, e) == Cardinality({i \in 1..Len(log) : log[i] = e})

\* C14: an input is treated as a quit command (goodbye, loop left, nothing
\* sent) exactly when the input, trimmed and lower-cased, equals quit, exit or
\* q; an input that contains a keyword without being one is sent as a message.
C14_QuitIsWholeInput ==
    lpCause \in TextCauses =>
        LET isKeyword == TrimmedLowered(lpMessage) \in QuitKeywords
            hasKeyword == \E k \in QuitKeywords : Contains(LowerText(lpMessage), k)
        IN  /\ (lpCause = "quit") <=> isKeyword
            /\ lpCause = "quit" => (lpPc = "exited" /\ lpLog = <<"goodbye">>)
            /\ (hasKeyword /\ ~isKeyword) => (Count(lpLog, "send") = 1 /\ lpCause # "blank")

\* C14 witness: the input quitter was sent as a message.
C14_Witness ==
    /\ lpMessage = <<"q", "u", "i", "t", "t", "e", "r">>
    /\ lpCause = "message"
    /\ lpPc = "sending"

C16_LoopEndsOnQuitOrSignal ==
    /\ (lpPc = "exited") <=>
           lpCause \in {"quit", "interrupt", "eof", "cancelled",
                        "turn_interrupt", "turn_cancelled"}
    /\ lpCause \in {"exception", "turn_exception"} =>
           (lpPc = "top" /\ lpLog # <<>> /\ lpLog[Len(lpLog)] = "error")

\* C16 witness: a turn raised an ordinary exception, it was reported, and the
\* loop is back at input capture.
C16_Witness ==
    /\ lpCause = "turn_exception"
    /\ lpPc = "top"
    /\ lpLog = <<"echo", "send", "error">>

(***************************************************************************)
(* ChatInterface._get_multiline_input, with the terminal rows it draws.    *)
(* The screen is the rows from the row where the call began; a row is      *)
(* "blank", "typed" (drawn by the prompt: the prompt text and the line the *)
(* user typed) or "clean" (a continuation line printed again). The prompt  *)
(* session wraps lines (wrap_lines=True): a text longer than the terminal  *)
(* is wide takes several rows.                                             *)
(***************************************************************************)
MaxLineLen == 3     \* characters in one typed line
MaxTyped == 2       \* lines typed in one call
TermWidth == 4      \* columns of the terminal

PromptWidth == 2    \* the prompts "> " and "  "

BS == "\\"

EditChars == {"a", SP, BS}

EditLines == SeqsUpTo(EditChars, MaxLineLen)

EndsWith(s, c) == s # <<>> /\ s[Len(s)] = c

ButLast(s) == SubSeq(s, 1, Len(s) - 1)

\* line.endswith("\\"), asked of the line after line.rstrip()
IsContinuation(line) == EndsWith(line, BS)

\* As CleanLine, but the marker stays.
CleanLineKeepsMarker(line) == line

\* clean_line = line[:-1].rstrip()
CleanLine(line) == RStrip(ButLast(line))

\* Terminal rows a text of n characters takes.
Rows(n) == IF n = 0 THEN 1 ELSE (n + TermWidth - 1) \div TermWidth

\* n rows from row at are drawn with ink; the screen grows as needed.
Draw(scr, at, n, ink) ==
    [i \in 1..(IF Len(scr) > at + n - 1 THEN Len(scr) ELSE at + n - 1) |->
        IF i >= at /\ i < at + n THEN ink
        ELSE IF i <= Len(scr) THEN scr[i] ELSE "blank"]

\* "\x1b[1A\r\x1b[K" written n times: cursor up one row, that row cleared.
RECURSIVE EraseLines(_, _, _)
EraseLines(scr, cur, n) ==
    IF n = 0 \/ cur <= 1 THEN [screen |-> scr, cursor |-> cur]
    ELSE EraseLines([scr EXCEPT ![cur - 1] = "blank"], cur - 1, n - 1)

EditorInit ==
    /\ ToolIdle
    /\ ErrIdle
    /\ MainIdle
    /\ StreamIdle /\ ChatIdle /\ ProbeIdle /\ LoopIdle /\ NormIdle /\ ActIdle /\ SessIdle
    /\ edPc = "start"
    /\ edTyped = <<>>
    /\ edLines = <<>>
    /\ lines_entered = 0
    /\ screen = <<>>
    /\ cursor = 1
    /\ edResult = <<>>

\* self.console.print() and the locals: lines 228-232.
EditorBegin ==
    /\ edPc = "start"
    /\ screen' = Draw(screen, cursor, 1, "blank")
    /\ cursor' = cursor + 1
    /\ edPc' = "prompt"
    /\ UNCHANGED <<edTyped, edLines, lines_entered, edResult>>
    /\ UNCHANGED outsideEditor

\* prompt_async returns a line: one iteration of the while-loop, and on the
\* last line the clearing loop and the return: lines 234-284.
EditorLine(typed) ==
    /\ edPc = "prompt"
    /\ lines_entered < MaxTyped
    /\ edTyped' = Append(edTyped, typed)
    /\ lines_entered' = lines_entered + 1
    /\ LET shown == Rows(PromptWidth + Len(typed))
           scr1 == Draw(screen, cursor, shown, "typed")
           cur1 == cursor + shown
           line == RStrip(typed)
       IN  IF IsContinuation(line)
           THEN LET clean_line == CleanLine(line)
                    cleared == EraseLines(scr1, cur1, 1)
                    again == Rows(PromptWidth + Len(clean_line))
                IN  /\ edLines' = Append(edLines, clean_line)
                    /\ screen' = Draw(cleared.screen, cleared.cursor, again, "clean")
                    /\ cursor' = cleared.cursor + again
                    /\ edPc' = "prompt"
                    /\ UNCHANGED edResult
           ELSE LET cleared == EraseLines(scr1, cur1, lines_entered')
                IN  /\ edLines' = Append(edLines, line)
                    /\ screen' = cleared.screen
                    /\ cursor' = cleared.cursor
                    /\ edResult' = Join(edLines', NL)
                    /\ edPc' = "returned"
    /\ UNCHANGED outsideEditor

\* prompt_async raises EOFError or KeyboardInterrupt: it leaves the function.
EditorRaises ==
    /\ edPc = "prompt"
    /\ edPc' = "raised"
    /\ UNCHANGED <<edTyped, edLines, lines_entered, screen, cursor, edResult>>
    /\ UNCHANGED outsideEditor

EditorNext ==
    \/ EditorBegin
    \/ \E typed \in EditLines : EditorLine(typed)
    \/ EditorRaises

SpecEditor == EditorInit /\ [][EditorNext]_vars

\* The typed lines as the claim's wording has them returned: every line but
\* the last without its final character, the last as typed.
AsEntered(typed) ==
    [i \in 1..Len(typed) |->
        IF i < Len(typed) THEN ButLast(typed[i]) ELSE typed[i]]

\* The typed lines as returned once trailing whitespace is dropped: every
\* line but the last without its marker and the whitespace before it.
AsStripped(typed) ==
    [i \in 1..Len(typed) |->
        IF i < Len(typed) THEN RStrip(ButLast(RStrip(typed[i])))
        ELSE RStrip(typed[i])]

\* C17 as stated: the editor returns the entered lines up to and including
\* the first that does not end in the backslash, continuation lines without
\* their trailing backslash, joined with newlines; a line ending in the
\* backslash never ends input and a line not ending in it always does.
C17_ReturnsEnteredLines ==
    /\ edPc = "returned" =>
        /\ edResult = Join(AsEntered(edTyped), NL)
        /\ ~EndsWith(edTyped[Len(edTyped)], BS)
    /\ edPc \in {"prompt", "returned"} =>
        \A i \in 1..Len(edTyped) :
            i < Len(edTyped) \/ edPc = "prompt" => EndsWith(edTyped[i], BS)

\* C17 amended: the same with every entered line taken without its trailing
\* whitespace: the editor returns the stripped lines up to and including the
\* first whose stripped form does not end in the backslash, continuation
\* lines without the backslash and the whitespace before it, joined with
\* newlines; a line whose stripped form ends in the backslash never ends
\* input and any other line always does.
C17_ReturnsStrippedLines ==
    /\ edPc = "returned" =>
        /\ edResult = Join(AsStripped(edTyped), NL)
        /\ ~EndsWith(RStrip(edTyped[Len(edTyped)]), BS)
    /\ edPc \in {"prompt", "returned"} =>
        \A i \in 1..Len(edTyped) :
            i < Len(edTyped) \/ edPc = "prompt" => EndsWith(RStrip(edTyped[i]), BS)

\* C17 witness: a continuation line typed with a space after the backslash,
\* then a last line typed with a trailing space.
C17_Witness ==
    /\ edPc = "returned"
    /\ edTyped = << <<"a", BS, SP>>, <<"a", SP>> >>
    /\ edResult = <<"a", NL, "a">>

\* C18: when the editor has returned, no row it drew is left on the screen.
C18_CaptureErased ==
    edPc = "returned" => \A i \in 1..Len(screen) : screen[i] = "blank"

(***************************************************************************)
(* _normalize_markdown_alignment applied to a text, and to its own result  *)
(***************************************************************************)
MaxText == 5        \* characters of a text to normalize

MaxIndent == 8      \* leading spaces of the indented texts

NormChars == {"a", SP, BT, NL}

Spaces(n) == [i \in 1..n |-> SP]

\* One line with 0..MaxIndent leading spaces before a list marker, a quote
\* marker or a letter, with and without trailing spaces.
IndentedTexts ==
    {Spaces(n) \o <<c>> \o t :
        n \in 0..MaxIndent, c \in {"-", "*", "+", ">", "a"}, t \in {<<>>, <<SP, SP>>}}

NormTexts == SeqsUpTo(NormChars, MaxText) \cup IndentedTexts

NormInit ==
    /\ ToolIdle
    /\ ErrIdle
    /\ MainIdle
    /\ StreamIdle /\ ChatIdle /\ ProbeIdle /\ LoopIdle /\ EditorIdle /\ ActIdle /\ SessIdle
    /\ nmPc = "text"
    /\ nmContent \in NormTexts
    /\ nmOnce = <<>>
    /\ nmTwice = <<>>

\* normalized_text = self._normalize_markdown_alignment(response_text)
NormalizeOnce ==
    /\ nmPc = "text"
    /\ nmOnce' = Normalize(nmContent)
    /\ nmPc' = "once"
    /\ UNCHANGED <<nmContent, nmTwice>>
    /\ UNCHANGED outsideNorm

\* The function applied to its own result.
NormalizeTwice ==
    /\ nmPc = "once"
    /\ nmTwice' = Normalize(nmOnce)
    /\ nmPc' = "twice"
    /\ UNCHANGED <<nmContent, nmOnce>>
    /\ UNCHANGED outsideNorm

NormNext == NormalizeOnce \/ NormalizeTwice

SpecNorm == NormInit /\ [][NormNext]_vars

\* A line whose trimmed content starts with the fence.
IsFenceLine(line) == StartsWith(Strip(line), Fence)

\* An odd number of fence lines precede line i, which is no fence line itself.
InsideFence(ls, i) ==
    /\ ~IsFenceLine(ls[i])
    /\ Cardinality({j \in 1..(i - 1) : IsFenceLine(ls[j])}) % 2 = 1

\* C19: normalizing a normalized text changes nothing.
C19_NormalizeIdempotent ==
    nmPc = "twice" => nmTwice = nmOnce

\* C20: every line strictly inside a fenced block is in the normalized text
\* exactly as it is in the text, leading and trailing whitespace included.
C20_FencedLinesVerbatim ==
    nmPc \in {"once", "twice"} =>
        LET ls == Splitlines(nmContent)
            out == Split(nmOnce, NL)
        IN  \A i \in 1..Len(ls) : InsideFence(ls, i) => out[i] = ls[i]

\* An even number of fence lines precede line i, which is no fence line itself.
OutsideFence(ls, i) ==
    /\ ~IsFenceLine(ls[i])
    /\ Cardinality({j \in 1..(i - 1) : IsFenceLine(ls[j])}) % 2 = 0

LeadingSpaces(line) == Len(line) - Len(LStrip(line))

StartsWithMarker(line) ==
    LET t == Strip(line) IN t # <<>> /\ t[1] \in {"-", "*", "+", ">"}

\* What the stated policy makes of a line outside a fence.
PolicyLine(line) ==
    IF LeadingSpaces(line) <= 3 THEN line
    ELSE IF StartsWithMarker(line) /\ LeadingSpaces(line) <= 6 THEN line
    ELSE LStrip(line)

\* C21: a line outside a fence is unchanged when it has at most 3 leading
\* spaces; with 4 or more it loses all leading whitespace, unless its trimmed
\* content starts with a list or quote marker and it has at most 6 leading
\* spaces, and then it is unchanged.
C21_OutsideFencePolicy ==
    nmPc \in {"once", "twice"} =>
        LET ls == Splitlines(nmContent)
            out == Split(nmOnce, NL)
        IN  \A i \in 1..Len(ls) : OutsideFence(ls, i) => out[i] = PolicyLine(ls[i])

(***************************************************************************)
(* The body of the async-for in _send_message, with _handle_action and     *)
(* _handle_non_file_action and the lines they print.                       *)
(***************************************************************************)
MaxArrive == 3      \* values one stream yields

\* A decoded value: an object with its type ("absent": no type key), the
\* result kind of a user_action, and whether it has content; or no object.
Value(kind, type, result, content) ==
    [kind |-> kind, type |-> type, result |-> result, content |-> content]

StreamValues ==
    { Value("object", "message", "none", <<"a">>),
      Value("object", "message", "none", <<>>),
      Value("object", "file", "none", <<"X">>),
      Value("object", "tool_use", "none", <<>>),
      Value("object", "limit_message", "none", <<"l">>),
      Value("object", "limit_message", "none", <<>>),
      Value("object", "user_action", "file_saved", <<"X">>),
      Value("object", "user_action", "error", <<>>),
      Value("object", "bogus", "none", <<>>),
      Value("object", "absent", "none", <<>>),
      Value("scalar", "absent", "none", <<>>) }

Line(about, line) == [about |-> about, line |-> line]

\* As HandleNonFileAction, but a tool_use prints nothing.
HandleNonFileActionSilent(action, about, dbg) ==
    (IF dbg THEN <<Line(about, "debug_handling")>> ELSE <<>>)
    \o (IF action.type = "limit_message" /\ action.content # <<>>
        THEN <<Line(about, "limit_notice")>>
        ELSE IF action.type \notin {"tool_use", "limit_message"} /\ dbg
        THEN <<Line(about, "unknown_action")>>
        ELSE <<>>)

\* The lines _handle_non_file_action prints for an action.
HandleNonFileAction(action, about, dbg) ==
    (IF dbg THEN <<Line(about, "debug_handling")>> ELSE <<>>)
    \o (IF action.type = "tool_use" THEN <<Line(about, "tool_notice")>>
        ELSE IF action.type = "limit_message"
        THEN (IF action.content # <<>> THEN <<Line(about, "limit_notice")>> ELSE <<>>)
        ELSE IF dbg THEN <<Line(about, "unknown_action")>>
        ELSE <<>>)

\* The lines _handle_action prints for an action the loop passes to it.
HandleAction(action, about, dbg) ==
    (IF dbg THEN <<Line(about, "debug_received")>> ELSE <<>>)
    \o (IF action.type = "message" THEN <<>>
        ELSE IF action.type = "file" THEN <<Line(about, "file_prompt")>>
        ELSE HandleNonFileAction(action, about, dbg))

ActInit ==
    /\ ToolIdle
    /\ ErrIdle
    /\ MainIdle
    /\ StreamIdle /\ ChatIdle /\ ProbeIdle /\ LoopIdle /\ EditorIdle /\ NormIdle
    /\ SessIdle
    /\ acPc = "streaming"
    /\ acDebug \in BOOLEAN
    /\ acArrived = <<>>
    /\ acQueue = <<>>
    /\ acDispatched = <<>>
    /\ acOut = <<>>
    /\ acLive = TRUE
    /\ acText = <<>>

\* One iteration of the async-for: chat.py lines 322-344. For a value that
\* is no object action.get raises AttributeError, the with-block closes the
\* Live region and the except clause prints the error (line 353).
ActArrive(v) ==
    /\ acPc = "streaming"
    /\ Len(acArrived) < MaxArrive
    /\ acArrived' = Append(acArrived, v)
    /\ LET about == Len(acArrived')
       IN  IF v.kind # "object"
           THEN /\ acPc' = "failed"
                /\ acLive' = FALSE
                /\ acOut' = Append(acOut, Line(about, "turn_error"))
                /\ UNCHANGED <<acQueue, acDispatched, acText>>
           ELSE /\ UNCHANGED <<acPc, acLive>>
                /\ CASE Dispatch(v) = "render" ->
                            /\ acText' = IF v.content # <<>>
                                         THEN Accumulate(acText, v.content)
                                         ELSE acText
                            /\ UNCHANGED <<acQueue, acDispatched, acOut>>
                     [] Dispatch(v) = "defer" ->
                            /\ acQueue' = Enqueue(acQueue, v)
                            /\ UNCHANGED <<acDispatched, acOut, acText>>
                     [] OTHER ->
                            /\ acDispatched' = Append(acDispatched, v)
                            /\ acOut' = acOut \o HandleAction(v, about, acDebug)
                            /\ UNCHANGED <<acQueue, acText>>
    /\ UNCHANGED acDebug
    /\ UNCHANGED outsideAct

\* The stream is exhausted: the with-block closes the Live region.
ActEnd ==
    /\ acPc = "streaming"
    /\ acPc' = "ended"
    /\ acLive' = FALSE
    /\ UNCHANGED <<acDebug, acArrived, acQueue, acDispatched, acOut, acText>>
    /\ UNCHANGED outsideAct

ActNext ==
    \/ \E v \in StreamValues : ActArrive(v)
    \/ ActEnd

SpecActions == ActInit /\ [][ActNext]_vars

\* The types of the wire protocol.
KnownTypes == {"message", "file", "tool_use", "limit_message", "user_action"}

IsUnknownValue(v) == v.kind # "object" \/ v.type \notin KnownTypes

IsFileSave(v) ==
    /\ v.kind = "object"
    /\ v.type = "file" \/ (v.type = "user_action" /\ v.result = "file_saved")

IsActionError(v) ==
    v.kind = "object" /\ v.type = "user_action" /\ v.result = "error"

IsOther(v) == v.kind = "object" /\ v.type \notin {"message", "file"}

LinesAbout(i) == {k \in 1..Len(acOut) : acOut[k].about = i}

\* C22: a decoded value that matches no known tag (an object with an
\* unrecognised or absent type, or a value that is no object) raises nothing:
\* the turn does not fail on it, and lines are printed for it only in debug
\* mode.
C22_UnknownIsIgnored ==
    \A i \in 1..Len(acArrived) :
        IsUnknownValue(acArrived[i]) =>
            /\ ~(acPc = "failed" /\ i = Len(acArrived))
            /\ \A k \in LinesAbout(i) : acDebug /\ acOut[k].line # "turn_error"

\* C23: when the stream has ended, every file proposal and every user-action
\* result of kind FileSaved received in the turn is in the pending queue, and
\* none was passed to the handler on arrival.
C23_FileSavesQueued ==
    acPc = "ended" =>
        \A i \in 1..Len(acArrived) :
            IsFileSave(acArrived[i]) =>
                /\ \E q \in 1..Len(acQueue) : acQueue[q] = acArrived[i]
                /\ \A d \in 1..Len(acDispatched) : acDispatched[d] # acArrived[i]

\* C24: a user-action result of kind ActionError has an error line printed
\* for it and does not fail the turn.
C24_ActionErrorReported ==
    \A i \in 1..Len(acArrived) :
        IsActionError(acArrived[i]) =>
            /\ \E k \in LinesAbout(i) : acOut[k].line = "action_error"
            /\ acPc # "failed"

\* C25: the actions passed to _handle_action are exactly the arrived actions
\* that are neither message nor file, once each and in arrival order, handled
\* in the step in which they arrive, with the Live region still open; each
\* tool_use has exactly one notice line; lines appear in arrival order.
C25_OthersDispatchedInOrder ==
    /\ acDispatched = SelectSeq(acArrived, IsOther)
    /\ acPc = "streaming" => acLive
    /\ \A i \in 1..Len(acArrived) :
           (acArrived[i].kind = "object" /\ acArrived[i].type = "tool_use") =>
               Cardinality({k \in LinesAbout(i) : acOut[k].line = "tool_notice"}) = 1
    /\ \A k \in 1..(Len(acOut) - 1) : acOut[k].about <= acOut[k + 1].about
    /\ \A d \in 1..Len(acDispatched) : acDispatched[d].type \notin {"message", "file"}

\* C25 witness: a tool_use, a file and a limit_message arrived in that order;
\* the two others were dispatched, the file is queued, the region is open.
C25_Witness ==
    /\ acPc = "streaming"
    /\ Len(acArrived) = 3
    /\ acArrived[1].type = "tool_use"
    /\ acArrived[2].type = "file"
    /\ acArrived[3].type = "limit_message"
    /\ Len(acDispatched) = 2
    /\ Len(acQueue) = 1
    /\ acLive

(***************************************************************************)
(* SpecSmithAPIClient.create_session as start calls it, and what start     *)
(* prints when it raises. A text is a sequence of parts: the literal parts *)
(* of the f-string and the parts substituted into it. Each attempt is one  *)
(* run of start; the log keeps the attempts for comparison.                *)
(***************************************************************************)
MaxAttempts == 2    \* runs of start that are compared

SessionReplies ==
    {Reply(st, <<"json">>, TRUE, sid) : st \in {200, 201}, sid \in {"s1", "s2"}}
    \cup {Reply(200, <<"json">>, TRUE, "none"), Reply(200, <<"html">>, FALSE, "none")}
    \cup {Reply(st, b, FALSE, "none") :
              st \in {401, 404, 500, 503}, b \in {<<"body x">>, <<"body y">>}}
    \cup {Reply(0, t, FALSE, "none") :
              t \in {<<"connect refused">>, <<"read timed out">>}}

InvalidCredentials ==
    <<"Invalid API credentials. Please check your access key ID and token.">>

EndpointNotFound == <<"API endpoint not found. Please check the API URL.">>

\* The reply lets create_session return: raise_for_status() passes,
\* response.json() decodes and data["session_id"] exists.
ReplyCarriesId(reply) ==
    /\ reply.status # 0 /\ ~RaisesForStatus(reply.status)
    /\ reply.json
    /\ reply.session_id # "none"

\* As CreateSessionError, but a 401 is reported like any other error status.
CreateSessionErrorWithBody(reply) ==
    IF reply.status = 0 THEN <<"Failed to create session: ">> \o reply.text
    ELSE IF RaisesForStatus(reply.status)
    THEN IF reply.status = 404 THEN EndpointNotFound
         ELSE <<"API error: ", ToString(reply.status), " - ">> \o reply.text
    ELSE IF ~reply.json THEN <<"Failed to create session: ", "Expecting value">>
    ELSE <<"Failed to create session: ", "'session_id'">>

\* As CreateSessionError, but every failure has the text of the last handler.
CreateSessionErrorGeneric(reply) == <<"Failed to create session: ">>

\* The text of the ValueError create_session raises for a reply that does
\* not let it return: the handlers at lines 55-67.
CreateSessionError(reply) ==
    IF reply.status = 0 THEN <<"Failed to create session: ">> \o reply.text
    ELSE IF RaisesForStatus(reply.status)
    THEN IF reply.status = 401 THEN InvalidCredentials
         ELSE IF reply.status = 404 THEN EndpointNotFound
         ELSE <<"API error: ", ToString(reply.status), " - ">> \o reply.text
    ELSE IF ~reply.json THEN <<"Failed to create session: ", "Expecting value">>
    ELSE <<"Failed to create session: ", "'session_id'">>

\* start's "except Exception as e": the text printed, whatever config.debug.
ShownError(error, dbg) == <<"Error: ">> \o error

Attempt(reply, result, error, shown) ==
    [reply |-> reply, result |-> result, error |-> error, shown |-> shown]

SessInit ==
    /\ ToolIdle
    /\ ErrIdle
    /\ MainIdle
    /\ StreamIdle /\ ChatIdle /\ ProbeIdle /\ LoopIdle /\ EditorIdle /\ NormIdle
    /\ ActIdle
    /\ csPc = "start"
    /\ csDebug \in BOOLEAN
    /\ csReply = NoReply
    /\ csResult = "none"
    /\ csError = <<>>
    /\ csShown = <<>>
    /\ csLog = <<>>

\* create_session: api_client.py lines 40-67.
CreateSessionCall(reply) ==
    /\ csPc = "start"
    /\ Len(csLog) < MaxAttempts
    /\ csReply' = reply
    /\ csShown' = <<>>
    /\ IF ReplyCarriesId(reply)
       THEN csResult' = reply.session_id /\ csError' = <<>> /\ csPc' = "returned"
       ELSE csResult' = "none" /\ csError' = CreateSessionError(reply) /\ csPc' = "raised"
    /\ UNCHANGED <<csDebug, csLog>>
    /\ UNCHANGED outsideSess

\* start's except clause prints the error: chat.py lines 187-188.
SessDisplay ==
    /\ csPc = "raised"
    /\ csShown' = ShownError(csError, csDebug)
    /\ csLog' = Append(csLog, Attempt(csReply, csResult, csError, csShown'))
    /\ csPc' = "start"
    /\ UNCHANGED <<csDebug, csReply, csResult, csError>>
    /\ UNCHANGED outsideSess

\* start goes on with the session id: chat.py lines 178-184.
SessProceed ==
    /\ csPc = "returned"
    /\ csLog' = Append(csLog, Attempt(csReply, csResult, csError, csShown))
    /\ csPc' = "start"
    /\ UNCHANGED <<csDebug, csReply, csResult, csError, csShown>>
    /\ UNCHANGED outsideSess

SessNext ==
    \/ \E reply \in SessionReplies : CreateSessionCall(reply)
    \/ SessDisplay
    \/ SessProceed

SpecSession == SessInit /\ [][SessNext]_vars

\* The class of a failed reply: by status, transport failure, or bad body.
FailureClass(reply) ==
    IF reply.status = 0 THEN "transport"
    ELSE IF reply.status = 401 THEN "auth"
    ELSE IF reply.status = 404 THEN "endpoint"
    ELSE IF reply.status >= 400 THEN "api " \o ToString(reply.status)
    ELSE "body"

\* The failure kinds the caller is to tell apart.
FailureKind(reply) ==
    IF reply.status = 0 THEN "transport"
    ELSE IF reply.status = 401 THEN "auth"
    ELSE IF reply.status = 404 THEN "endpoint"
    ELSE IF reply.status >= 400 THEN "api"
    ELSE "body"

Failed(i) == csLog[i].result = "none"

\* C26: with debug off, what is displayed for a failure depends on the class
\* of the failure only: two failures of the same class display the same text,
\* whatever the server's body or the exception's text.
C26_DisplayDependsOnClassOnly ==
    ~csDebug =>
        \A i, j \in 1..Len(csLog) :
            (Failed(i) /\ Failed(j)
                /\ FailureClass(csLog[i].reply) = FailureClass(csLog[j].reply))
            => csLog[i].shown = csLog[j].shown

\* C27: a 401 reply to session creation fails with the credentials error, and
\* the text displayed for it is one fixed text, the same for every body of
\* the 401 reply, with debug off (and on).
C27_Auth401FixedText ==
    /\ (csPc = "raised" /\ csReply.status = 401) => csError = InvalidCredentials
    /\ \A i \in 1..Len(csLog) :
           csLog[i].reply.status = 401 =>
               /\ Failed(i)
               /\ csLog[i].error = InvalidCredentials
               /\ csLog[i].shown = <<"Error: ">> \o InvalidCredentials
    /\ \A i \in 1..Len(csLog) :
           csLog[i].reply.status # 401 => csLog[i].error # InvalidCredentials

\* C27 witness: two 401 replies with different bodies, debug off, were
\* displayed with the same text.
C27_Witness ==
    /\ ~csDebug
    /\ Len(csLog) = 2
    /\ csLog[1].reply.status = 401 /\ csLog[2].reply.status = 401
    /\ csLog[1].reply.text # csLog[2].reply.text
    /\ csLog[1].shown = csLog[2].shown

\* C28: create_session returns a session id exactly for a reply without an
\* error status whose JSON body carries one, and returns that one; every other
\* reply ends in an error; errors of two different kinds among 401, 404,
\* other error status and transport failure never have the same text.
C28_SessionIdOrDistinctFailure ==
    /\ csPc \in {"returned", "raised"} =>
           /\ (csPc = "returned") <=>
                  (csReply.status \in 200..299 /\ csReply.json
                      /\ csReply.session_id # "none")
           /\ csPc = "returned" => (csResult = csReply.session_id /\ csError = <<>>)
           /\ csPc = "raised" => (csResult = "none" /\ csError # <<>>)
    /\ \A i, j \in 1..Len(csLog) :
           (Failed(i) /\ Failed(j)
               /\ FailureKind(csLog[i].reply) # "body"
               /\ FailureKind(csLog[j].reply) # "body"
               /\ FailureKind(csLog[i].reply) # FailureKind(csLog[j].reply))
           => csLog[i].error # csLog[j].error

\* C28 witness: a 500 reply and a transport failure, with different errors.
C28_Witness ==
    /\ Len(csLog) = 2
    /\ csLog[1].reply.status = 500
    /\ csLog[2].reply.status = 0
    /\ csLog[1].error # csLog[2].error

(***************************************************************************)
(* The confirmation prompt of a queued file action (specification Spec)    *)
(***************************************************************************)
\* The step in which the prompt for a queued file action is answered.
PromptAnswered == promptActive /\ ~promptActive'

\* C29 (as stated): a step in which the user accepts the prompt for a queued
\* file action leaves the named file with exactly the proposed content and
\* reports the success line.
C29_AcceptWritesAndReportsSuccess ==
    [][(PromptAnswered /\ lastAnswer' = "accept") =>
           /\ promptFor.content = fs'[promptFor.filename]
           /\ lastReport' = "saved"]_vars

\* C29 (amended): a step in which the user accepts the prompt either writes
\* the file (it exists afterwards with exactly the proposed content, an
\* existing file fully replaced, no other file touched) and reports the
\* success line, or the write has failed and the failure line is reported
\* in place of the success line.
C29_AcceptWritesUnlessWriteFails ==
    [][(PromptAnswered /\ lastAnswer' = "accept") =>
           \/ /\ lastReport' = "saved"
              /\ promptFor.content # Absent
              /\ fs' = [fs EXCEPT ![promptFor.filename] = promptFor.content]
           \/ lastReport' = "write_failed"]_vars

\* C29 witness: two file actions for a.txt were handled in one turn, the
\* second accepted and saved: a.txt holds the second content.
C29_Witness ==
    /\ Len(handled) = 2
    /\ handled[1] = Action("object", "file", <<"X">>, "a.txt")
    /\ handled[2] = Action("object", "file", <<"Z">>, "a.txt")
    /\ lastAnswer = "accept"
    /\ lastReport = "saved"
    /\ fs["a.txt"] = <<"Z">>

\* C30: a step in which the user declines the prompt for a queued file action
\* leaves every file as it was (an absent file stays absent, an existing file
\* keeps its content) and reports the skip notice.
C30_DeclineLeavesFilesystem ==
    [][(PromptAnswered /\ lastAnswer' = "decline") =>
           /\ fs' = fs
           /\ lastReport' = "skipped"]_vars

\* C30 witness: a.txt was saved, then a second file action for a.txt and one
\* for b.txt were declined: a.txt keeps its content and b.txt does not exist.
C30_Witness ==
    /\ Len(handled) = 3
    /\ handled[1] = Action("object", "file", <<"X">>, "a.txt")
    /\ handled[2] = Action("object", "file", <<"Z">>, "a.txt")
    /\ handled[3] = Action("object", "file", <<"Y">>, "b.txt")
    /\ lastAnswer = "decline"
    /\ lastReport = "skipped"
    /\ fs["a.txt"] = <<"X">>
    /\ fs["b.txt"] = Absent

\* An affirmative answer to a confirmation of the given kind: "y", or Enter
\* alone at the save prompt, whose default is to accept.
Affirmative(prompt) ==
    \/ prompt.typed = "y"
    \/ prompt.typed = "" /\ prompt.kind = "save"

\* C31: each answered confirmation is the one for the next queued file
\* action, asked once; it is the overwrite prompt (Enter alone declines) when
\* a file of that name exists and the save prompt (Enter alone accepts)
\* otherwise; and no step changes a file except the answering of a
\* confirmation with an affirmative answer.
C31_OneConfirmationWithDefault ==
    [][/\ PromptAnswered =>
              /\ handled' = Append(handled, promptFor)
              /\ (pc = "flushing" =>
                      handled' = SubSeq(pending_file_actions, 1, Len(handled')))
              /\ lastPrompt'.kind =
                     (IF fs[promptFor.filename] # Absent
                      THEN "overwrite" ELSE "save")
              /\ (lastAnswer' = "accept") = Affirmative(lastPrompt')
       /\ fs' # fs =>
              /\ PromptAnswered
              /\ Affirmative(lastPrompt')]_vars

\* C31 witness: a.txt exists and a second file action for a.txt was answered
\* with Enter alone at the overwrite prompt: declined, a.txt as it was.
C31_Witness ==
    /\ Len(handled) = 2
    /\ handled[1] = Action("object", "file", <<"X">>, "a.txt")
    /\ handled[2] = Action("object", "file", <<"Z">>, "a.txt")
    /\ lastPrompt = [kind |-> "overwrite", typed |-> ""]
    /\ lastAnswer = "decline"
    /\ fs["a.txt"] = <<"X">>

\* A file action that lacks a filename, a content, or both.
LacksData(action) == action.filename = "" \/ action.content = <<>>

AtIncomplete ==
    /\ pc = "flushing"
    /\ ~promptActive
    /\ flushIdx <= Len(pending_file_actions)
    /\ LacksData(pending_file_actions[flushIdx])

MaxTools == 2       \* tool_use actions handled in one run

FieldValues(text) == {MissingKey, PyNone, "", text}

ToolUses ==
    { ToolUse(d, t) : d \in FieldValues("searching files"),
                      t \in FieldValues("search") }

\* dict.get(key): None when the key is missing.
Get(action, key) == IF action[key] = MissingKey THEN PyNone ELSE action[key]

\* dict.get(key, default): the default only when the key is missing.
GetOr(action, key, default) ==
    IF action[key] = MissingKey THEN default ELSE action[key]

\* Python's truth value of None or a string.
Truthy(v) == v # PyNone /\ v # ""

\* What an f-string shows for a value.
Str(v) == IF v = PyNone THEN "None" ELSE v

\* description = action.get("description") or action.get("tool_name", "tool")
ToolDescription(action) ==
    IF Truthy(Get(action, "description"))
    THEN Get(action, "description")
    ELSE GetOr(action, "tool_name", "tool")

\* The name inside console.print(f"[dim]( {description} )...[/dim]").
ToolNotice(action) == Str(ToolDescription(action))

ToolInit ==
    /\ ErrIdle
    /\ MainIdle
    /\ StreamIdle /\ ChatIdle /\ ProbeIdle /\ LoopIdle /\ EditorIdle /\ NormIdle
    /\ ActIdle /\ SessIdle
    /\ tuPc = "handling"
    /\ tuAction = NoToolUse
    /\ tuShown = ""
    /\ tuLog = <<>>

\* _handle_non_file_action for one tool_use action.
ToolArrives(action) ==
    /\ tuPc = "handling"
    /\ Len(tuLog) < MaxTools
    /\ tuAction' = action
    /\ tuShown' = ToolNotice(action)
    /\ tuLog' = Append(tuLog, [action |-> action, shown |-> tuShown'])
    /\ UNCHANGED tuPc
    /\ UNCHANGED outsideTool

ToolNext == \E action \in ToolUses : ToolArrives(action)

SpecTool == ToolInit /\ [][ToolNext]_vars

\* The action has the field: the key is there with a non-empty string.
Has(v) == v # MissingKey /\ v # PyNone /\ v # ""

\* C34: the informational line of every tool_use action handled shows the
\* action's description when it has one, otherwise its tool_name when it has
\* one, otherwise the literal "tool".
C34_ToolNoticeCascade ==
    \A i \in 1..Len(tuLog) :
        LET a == tuLog[i].action
        IN  tuLog[i].shown =
                IF Has(a.description) THEN a.description
                ELSE IF Has(a.tool_name) THEN a.tool_name
                ELSE "tool"

(***************************************************************************)
(* health_check and test_connection never raise (specification SpecProbe)  *)
(***************************************************************************)
\* C35: test_connection ends by returning True or False, never by raising;
\* health_check returned True exactly when the liveness status was 200; and
\* after a liveness status other than 200, an error status of the
\* authenticated probe (401 or another) or a transport exception of either
\* request, test_connection has returned False.
C35_ProbesNeverRaise ==
    /\ tcResult \in {"none", "true", "false"}
    /\ tcPc = "returned" => tcResult \in {"true", "false"}
    /\ probeLog # <<>> =>
           ((tcPc = "auth" \/ Len(probeLog) = 2) <=> healthReply = 200)
    /\ (/\ tcPc = "returned"
        /\ \/ healthReply # 200
           \/ authReply = 0
           \/ authReply >= 400) => tcResult = "false"

\* C35 witness: the API is alive, the authenticated probe got a 500, and
\* test_connection has returned False.
C35_Witness ==
    /\ tcPc = "returned"
    /\ healthReply = 200
    /\ authReply = 500
    /\ probeLog = <<"health", "auth">>
    /\ tcResult = "false"

(***************************************************************************)
(* Failed turns and the session id (specification Spec)                    *)
(***************************************************************************)
\* The step in which a turn fails with the stream being iterated.
TurnFails == pc = "streaming" /\ turnEnd # "failed" /\ turnEnd' = "failed"

\* C36: the step in which a turn fails during streaming ends with the error
\* message printed and the Live region closed, and the Live region is closed
\* whenever the input editor waits for a line.
C36_LiveClosedOnFailure ==
    /\ [][TurnFails => (lastReport' = "turn_error" /\ ~live')]_vars
    /\ [](inputPending => ~live)

\* C36 witness: a turn failed after a delta had been rendered in the Live
\* region; the input editor waits for the next line, the region closed.
C36_Witness ==
    /\ mode = "interactive"
    /\ turnEnd = "failed"
    /\ rendered.kind = "markdown"
    /\ arrived # <<>>
    /\ inputPending
    /\ ~live

\* C37: when a turn has failed, none of its file actions was prompted or
\* written and no flush runs; the step in which it fails changes no file;
\* and in every turn the file actions handled are a prefix of the file
\* actions that arrived in that same turn, so nothing queued in an earlier,
\* failed turn is prompted or written later.
C37_FailedTurnDropsQueue ==
    /\ [](turnEnd = "failed" =>
              /\ handled = <<>>
              /\ ~promptActive
              /\ pc # "flushing")
    /\ [][TurnFails => fs' = fs]_vars
    /\ [](/\ Len(handled) <= Len(FilesOf(arrived))
          /\ handled = SubSeq(FilesOf(arrived), 1, Len(handled))
          /\ (promptActive =>
                 /\ Len(handled) < Len(FilesOf(arrived))
                 /\ promptFor = FilesOf(arrived)[Len(handled) + 1]))
    /\ [][fs' # fs => PromptAnswered]_vars

\* C37 witness: a turn failed with a file action for a.txt queued; the input
\* editor waits for the next line, nothing was prompted and no file exists.
C37_Witness ==
    /\ mode = "interactive"
    /\ turnEnd = "failed"
    /\ FilesOf(arrived) = <<Action("object", "file", <<"X">>, "a.txt")>>
    /\ handled = <<>>
    /\ ~promptActive
    /\ inputPending
    /\ \A f \in Filenames : fs[f] = Absent

\* C38: every step that issues a message request is taken with an API client
\* and a session id; in the interactive chat create_session is called at most
\* once, and only after the one connection probe has succeeded; the session
\* id does not change once the loop is entered; and _send_message entered
\* without a client or without a session id raises: the step issues no
\* request and opens no Live region.
C38_NoRequestWithoutSession ==
    /\ [][requests' # requests =>
              /\ api_client
              /\ session_id # 0
              /\ requests' = requests + 1]_vars
    /\ [](mode = "interactive" =>
              /\ createCount <= 1
              /\ (createCount = 1 =>
                     (probeCount = 1 /\ setup \notin {"probe_failed", "probe_raised"}))
              /\ (loopEntered => createCount = 1))
    /\ [][loopEntered => session_id' = session_id]_vars
    /\ [][(pc = "send" /\ (~api_client \/ session_id = 0) /\ pc' # pc) =>
              /\ requests' = requests
              /\ ~live'
              /\ ~iterating'
              /\ lastReport' \in {"loop_error", "error"}]_vars

\* C38 witness: create_session gave an empty session id, the loop was
\* entered, a message was read and refused, and no request was issued.
C38_Witness ==
    /\ mode = "interactive"
    /\ loopEntered
    /\ createCount = 1
    /\ session_id = 0
    /\ inputs >= 1
    /\ lastReport = "loop_error"
    /\ requests = 0

(***************************************************************************)
(* errors.sanitize_error_message and errors.create_error_from_exception    *)
(* (specification SpecErrors). An exception's text is a sequence of        *)
(* characters, made of up to MaxFragments fragments.                       *)
(***************************************************************************)
MaxFragments == 2   \* fragments an exception's text is made of

\* Pieces of exception texts: some match one class, some several when put
\* together, one matches none.
Fragments ==
    { <<"C", "o", "n", "n", "e", "c", "t", "i", "o", "n">>,
      <<" ", "r", "e", "f", "u", "s", "e", "d">>,
      <<"T", "i", "m", "e", "o", "u", "t">>,
      <<"4", "0", "1">>,
      <<" ", "U", "n", "a", "u", "t", "h", "o", "r", "i", "z", "e", "d">>,
      <<"s", "e", "s", "s", "i", "o", "n">>,
      <<" ", "n", "o", "t", " ", "f", "o", "u", "n", "d">>,
      <<"4", "0", "4", " ">>,
      <<"r", "a", "t", "e", " ", "l", "i", "m", "i", "t">>,
      <<"5", "0", "0", " ">>,
      <<"S", "e", "r", "v", "e", "r", " ", "E", "r", "r", "o", "r">>,
      <<"b", "o", "o", "m">> }

RECURSIVE FragmentTexts(_)
FragmentTexts(n) ==
    IF n = 0 THEN {<<>>}
    ELSE LET shorter == FragmentTexts(n - 1)
         IN  shorter \cup {t \o f : t \in shorter, f \in Fragments}

ErrorTexts == FragmentTexts(MaxFragments)

UpperLetters == <<"A", "B", "C", "D", "E", "F", "G", "H", "I", "J", "K", "L", "M", "N"
                 , "O", "P", "Q", "R", "S", "T", "U", "V", "W", "X", "Y", "Z">>

LowerLetters == <<"a", "b", "c", "d", "e", "f", "g", "h", "i", "j", "k", "l", "m", "n"
                 , "o", "p", "q", "r", "s", "t", "u", "v", "w", "x", "y", "z">>

\* str.lower() on one character.
LowerChar(c) ==
    IF \E i \in 1..Len(UpperLetters) : UpperLetters[i] = c
    THEN LowerLetters[CHOOSE i \in 1..Len(UpperLetters) : UpperLetters[i] = c]
    ELSE c

\* error_str = str(error).lower()
ErrorStr(text) == [i \in 1..Len(text) |-> LowerChar(text[i])]

\* ["connection", "timeout", "network", "unreachable"]
ConnectionTerms ==
    { <<"c", "o", "n", "n", "e", "c", "t", "i", "o", "n">>,
      <<"t", "i", "m", "e", "o", "u", "t">>,
      <<"n", "e", "t", "w", "o", "r", "k">>,
      <<"u", "n", "r", "e", "a", "c", "h", "a", "b", "l", "e">> }

\* ["401", "unauthorized", "invalid credentials", "authentication"]
AuthenticationTerms ==
    { <<"4", "0", "1">>,
      <<"u", "n", "a", "u", "t", "h", "o", "r", "i", "z", "e", "d">>,
      <<"i", "n", "v", "a", "l", "i", "d", " ", "c", "r", "e", "d", "e", "n", "t", "i", "a", "l", "s">>,
      <<"a", "u", "t", "h", "e", "n", "t", "i", "c", "a", "t", "i", "o", "n">> }

\* ["404", "not found", "session"]
SessionTerms ==
    { <<"4", "0", "4">>,
      <<"n", "o", "t", " ", "f", "o", "u", "n", "d">>,
      <<"s", "e", "s", "s", "i", "o", "n">> }

\* ["overloaded", "high demand", "busy", "rate limit"]
OverloadedTerms ==
    { <<"o", "v", "e", "r", "l", "o", "a", "d", "e", "d">>,
      <<"h", "i", "g", "h", " ", "d", "e", "m", "a", "n", "d">>,
      <<"b", "u", "s", "y">>,
      <<"r", "a", "t", "e", " ", "l", "i", "m", "i", "t">> }

\* ["500", "502", "503", "504", "server error"]
ApiTerms ==
    { <<"5", "0", "0">>,
      <<"5", "0", "2">>,
      <<"5", "0", "3">>,
      <<"5", "0", "4">>,
      <<"s", "e", "r", "v", "e", "r", " ", "e", "r", "r", "o", "r">> }

\* any(term in error_str for term in terms)
AnyTermIn(terms, error_str) == \E term \in terms : Contains(error_str, term)

\* The messages sanitize_error_message returns.
ConnectionMessage == <<"Unable to connect to the Specsmith API. Please check your internet connection and try again.">>

AuthenticationMessage == <<"Authentication failed. Please check your API credentials.">>

SessionMessage == <<"Session not found. Please try starting a new chat session.">>

OverloadedMessage == <<"The upstream AI service is currently experiencing high demand. Please try again in a few moments.">>

ApiMessage == <<"The Specsmith API is temporarily unavailable. Please try again later.">>

UnknownMessage == <<"An unexpected error occurred. Please try again or contact support if the problem persists.">>

\* f"An error occurred: {str(error)}"
DebugMessage(text) == <<"An error occurred: ", text>>

\* sanitize_error_message: the cascade of lines 37-69.
SanitizeErrorMessage(text, dbg) ==
    LET error_str == ErrorStr(text)
    IN  IF AnyTermIn(ConnectionTerms, error_str) THEN ConnectionMessage
        ELSE IF AnyTermIn(AuthenticationTerms, error_str) THEN AuthenticationMessage
        ELSE IF AnyTermIn(SessionTerms, error_str) THEN SessionMessage
        ELSE IF AnyTermIn(OverloadedTerms, error_str) THEN OverloadedMessage
        ELSE IF AnyTermIn(ApiTerms, error_str) THEN ApiMessage
        ELSE IF dbg THEN DebugMessage(text)
        ELSE UnknownMessage

\* A cascade that looks for a session term before an authentication term.
ErrorTypeOfSessionFirst(text) ==
    LET error_str == ErrorStr(text)
    IN  IF AnyTermIn(ConnectionTerms, error_str) THEN "connection_error"
        ELSE IF AnyTermIn(SessionTerms, error_str) THEN "session_error"
        ELSE IF AnyTermIn(AuthenticationTerms, error_str) THEN "authentication_error"
        ELSE IF AnyTermIn(OverloadedTerms, error_str) THEN "overloaded_error"
        ELSE IF AnyTermIn(ApiTerms, error_str) THEN "api_error"
        ELSE "unknown_error"

\* create_error_from_exception: the cascade of lines 80-108, the error type.
ErrorTypeOf(text) ==
    LET error_str == ErrorStr(text)
    IN  IF AnyTermIn(ConnectionTerms, error_str) THEN "connection_error"
        ELSE IF AnyTermIn(AuthenticationTerms, error_str) THEN "authentication_error"
        ELSE IF AnyTermIn(SessionTerms, error_str) THEN "session_error"
        ELSE IF AnyTermIn(OverloadedTerms, error_str) THEN "overloaded_error"
        ELSE IF AnyTermIn(ApiTerms, error_str) THEN "api_error"
        ELSE "unknown_error"

\* The status_code set beside each error type; 0 is None.
StatusCodeOf(error_type) ==
    CASE error_type = "authentication_error" -> 401
      [] error_type = "session_error" -> 404
      [] error_type = "overloaded_error" -> 429
      [] error_type = "api_error" -> 500
      [] OTHER -> 0

\* create_error_from_exception
CreateErrorFromException(text, dbg) ==
    SpecsmithError(ErrorTypeOf(text), SanitizeErrorMessage(text, dbg),
                   StatusCodeOf(ErrorTypeOf(text)))

ErrInit ==
    /\ MainIdle
    /\ StreamIdle /\ ChatIdle /\ ProbeIdle /\ LoopIdle /\ EditorIdle /\ NormIdle
    /\ ActIdle /\ SessIdle /\ ToolIdle
    /\ erPc = "start"
    /\ erText \in ErrorTexts
    /\ erDebug \in BOOLEAN
    /\ erMessage = <<>>
    /\ erError = NoSpecsmithError

\* sanitize_error_message(error, debug)
ErrSanitize ==
    /\ erPc = "start"
    /\ erMessage' = SanitizeErrorMessage(erText, erDebug)
    /\ erPc' = "sanitized"
    /\ UNCHANGED <<erText, erDebug, erError>>
    /\ UNCHANGED outsideErr

\* create_error_from_exception(error, debug)
ErrCreate ==
    /\ erPc = "sanitized"
    /\ erError' = CreateErrorFromException(erText, erDebug)
    /\ erPc' = "done"
    /\ UNCHANGED <<erText, erDebug, erMessage>>
    /\ UNCHANGED outsideErr

ErrNext == ErrSanitize \/ ErrCreate

SpecErrors == ErrInit /\ [][ErrNext]_vars

\* The classes in the fixed order, the unknown class last.
ClassOrder ==
    <<"connection_error", "authentication_error", "session_error",
      "overloaded_error", "api_error">>

ClassTerms ==
    <<ConnectionTerms, AuthenticationTerms, SessionTerms, OverloadedTerms,
      ApiTerms>>

\* The classes a text matches, as positions in the order.
Matching(text) ==
    {i \in 1..Len(ClassOrder) : AnyTermIn(ClassTerms[i], ErrorStr(text))}

\* The earliest class the text matches; unknown when it matches none.
FirstMatch(text) ==
    IF Matching(text) = {} THEN "unknown_error"
    ELSE ClassOrder[CHOOSE i \in Matching(text) :
                        \A j \in Matching(text) : i <= j]

\* The class a returned message stands for.
MessageClass(message) ==
    CASE message = ConnectionMessage -> "connection_error"
      [] message = AuthenticationMessage -> "authentication_error"
      [] message = SessionMessage -> "session_error"
      [] message = OverloadedMessage -> "overloaded_error"
      [] message = ApiMessage -> "api_error"
      [] OTHER -> "unknown_error"

\* C39: for every exception text the message of sanitize_error_message and
\* the error type of create_error_from_exception stand for the same class,
\* the earliest in the order connection, authentication, session, overloaded,
\* API that the text matches, unknown when it matches none; the error carries
\* the message sanitize_error_message returns; and the debug flag changes the
\* message for no text outside the unknown class.
C39_SameClassFirstMatch ==
    /\ erPc \in {"sanitized", "done"} =>
           MessageClass(erMessage) = FirstMatch(erText)
    /\ erPc = "done" =>
           /\ erError.error_type = FirstMatch(erText)
           /\ erError.message = erMessage
    /\ erPc # "idle" =>
           (SanitizeErrorMessage(erText, TRUE) # SanitizeErrorMessage(erText, FALSE)
               => FirstMatch(erText) = "unknown_error")

\* C39 witness: the text "401session" matches the authentication and the
\* session class and both functions gave the authentication class.
C39_Witness ==
    /\ erPc = "done"
    /\ erText = <<"4", "0", "1", "s", "e", "s", "s", "i", "o", "n">>
    /\ Cardinality(Matching(erText)) = 2
    /\ erError.error_type = "authentication_error"
    /\ erMessage = AuthenticationMessage

(***************************************************************************)
(* main.chat, the chat subcommand (specification SpecMain). The group      *)
(* callback main loads the configuration, the command chat checks it and   *)
(* runs the chat.                                                          *)
(***************************************************************************)
\* A credential after options, environment and file: none, empty, given.
Credentials == {PyNone, "", "key"}

Messages == {PyNone, "hello"}

\* load_config: "if not final_access_key_id or not final_access_key_token:
\* raise ValueError", which main turns into ctx.obj["config"] = None.
LoadConfig(key_id, key_token) ==
    IF ~Truthy(key_id) \/ ~Truthy(key_token) THEN "none" ELSE "loaded"

\* validate_credentials(config)
ValidateCredentials(key_id, key_token) == Truthy(key_id) /\ Truthy(key_token)

\* The parameters of "async def run_chat(config: Config)".
RunChatParameters == {"config"}

\* The arguments of the call in main.chat:
\* run_chat(config, message=message, interactive=interactive).
ChatCallArguments == {"config", "message", "interactive"}

\* A call binds when every argument has a parameter; otherwise the call
\* itself raises TypeError.
CallBinds(arguments, parameters) == arguments \subseteq parameters

MainInit ==
    /\ StreamIdle /\ ChatIdle /\ ProbeIdle /\ LoopIdle /\ EditorIdle /\ NormIdle
    /\ ActIdle /\ SessIdle /\ ToolIdle /\ ErrIdle
    /\ mnPc = "main"
    /\ mnKeyId \in Credentials
    /\ mnKeyToken \in Credentials
    /\ mnMessage \in Messages
    /\ mnDebug \in BOOLEAN
    /\ mnInteractive \in BOOLEAN
    /\ mnConfig = "none"
    /\ mnShown = "none"
    /\ mnStarted = FALSE
    /\ mnExit = "running"

\* The group callback: load_config, its ValueError kept as config_error.
MainGroup ==
    /\ mnPc = "main"
    /\ mnConfig' = LoadConfig(mnKeyId, mnKeyToken)
    /\ mnPc' = "chat"
    /\ UNCHANGED <<mnKeyId, mnKeyToken, mnMessage, mnDebug, mnInteractive, mnShown,
                   mnStarted, mnExit>>
    /\ UNCHANGED outsideMain

\* chat up to "# Run the chat": the two checks with sys.exit(1).
ChatChecks ==
    /\ mnPc = "chat"
    /\ IF mnConfig = "none"
       THEN mnShown' = "configuration_error" /\ mnExit' = "1" /\ mnPc' = "done"
       ELSE IF ~ValidateCredentials(mnKeyId, mnKeyToken)
       THEN mnShown' = "invalid_credentials" /\ mnExit' = "1" /\ mnPc' = "done"
       ELSE mnPc' = "run" /\ UNCHANGED <<mnShown, mnExit>>
    /\ UNCHANGED <<mnKeyId, mnKeyToken, mnMessage, mnDebug, mnInteractive, mnConfig,
                   mnStarted>>
    /\ UNCHANGED outsideMain

\* The try block of chat: the call of run_chat is evaluated first; when it
\* binds, asyncio.run runs the coroutine, which enters ChatInterface.start;
\* when it raises, except Exception prints the error and exits with 1.
ChatRuns ==
    /\ mnPc = "run"
    /\ IF CallBinds(ChatCallArguments, RunChatParameters)
       THEN mnStarted' = TRUE /\ mnExit' = "0" /\ UNCHANGED mnShown
       ELSE /\ mnShown' = IF mnDebug THEN "error_and_traceback" ELSE "error"
            /\ mnExit' = "1"
            /\ UNCHANGED mnStarted
    /\ mnPc' = "done"
    /\ UNCHANGED <<mnKeyId, mnKeyToken, mnMessage, mnDebug, mnInteractive, mnConfig>>
    /\ UNCHANGED outsideMain

MainNext == MainGroup \/ ChatChecks \/ ChatRuns

SpecMain == MainInit /\ [][MainNext]_vars

\* C40: when the chat subcommand has ended after being run with a valid
\* configuration, ChatInterface.start was entered and the command did not
\* take its error exit.
C40_ChatReachesStart ==
    (mnPc = "done" /\ mnConfig = "loaded") =>
        (mnStarted /\ mnExit # "1" /\ mnShown \notin {"error", "error_and_traceback"})

====
